---- MODULE Spec2Model ----
(***************************************************************************)
(* Model of lxd/devices.go: the CPU balancer (deviceTaskBalance), the      *)
(* scheduler loop (deviceTaskScheduler), the hotplug monitor               *)
(* (deviceMonitorProcessors), the explicit rebalance queue                 *)
(* (deviceSchedRebalance), the device validator (validDeviceConfig), the  *)
(* device type codec, deviceCgroupInfo, deviceToLxc, devGetOptions, the    *)
(* live device delta engine (devicesApplyDeltaLive) and the configuration  *)
(* key checker of package instance (ConfigKeyChecker).                     *)
(*                                                                         *)
(* Go strings are sequences of one-character strings, so that parsing      *)
(* (strconv.Atoi, strings.Split), formatting (fmt.Sprintf "%d") and string *)
(* ordering (sort.Strings, ioutil.ReadDir) are computed, not assumed.      *)
(***************************************************************************)
EXTENDS Integers, Sequences, FiniteSets, TLC

(***************************************************************************)
(* Bounds of the model.                                                    *)
(***************************************************************************)
\* Number of containers returned by dbContainersList, in list order 1..n.
NumContainers == 2
\* The host has the CPU directories cpu0..cpu<MaxSmallCpu> and cpu<BigCpu>.
MaxSmallCpu == 3
BigCpu == 10
\* Goroutines that send on deviceSchedRebalance.
NumSenders == 1
\* Requests sent on deviceSchedRebalance have 2..MaxArity elements.
MaxArity == 3
\* Datagrams the netlink socket buffers.
MaxSock == 1
\* Calls of deviceTaskBalance in one behaviour of the daemon.
MaxPasses == 2
\* CPU online/offline transitions in one behaviour of the daemon.
MaxHotplug == 1
\* Wrong-arity notifications received, at most.
MaxDropped == 1
\* Device names of the instance.
NumDevices == 2
\* The integers the type decoder is called with: -NegDbTypes..MaxDbType.
NegDbTypes == 2
MaxDbType == 6

Containers == 1..NumContainers
CpuIds == (0..MaxSmallCpu) \cup {BigCpu}
\* CPUs without an "online" control file (never hot-unplugged).
NonHotplug == {0}
Senders == 1..NumSenders

(***************************************************************************)
(* Strings.                                                                *)
(***************************************************************************)
DigitChars == <<"0", "1", "2", "3", "4", "5", "6", "7", "8", "9">>

IsDigit(ch) == \E d \in 1..10 : DigitChars[d] = ch

DigitVal(ch) == (CHOOSE d \in 1..10 : DigitChars[d] = ch) - 1

\* Byte value of a character (ASCII), for the byte-wise string order.
CharCode(ch) ==
    IF IsDigit(ch) THEN 48 + DigitVal(ch)
    ELSE IF ch = "+" THEN 43
    ELSE IF ch = "," THEN 44
    ELSE IF ch = "-" THEN 45
    ELSE IF ch = "c" THEN 99
    ELSE IF ch = "p" THEN 112
    ELSE IF ch = "u" THEN 117
    ELSE 120

\* Go's < on strings: byte-wise lexicographic, a proper prefix is smaller.
RECURSIVE StringLess(_, _)
StringLess(a, b) ==
    IF b = <<>> THEN FALSE
    ELSE IF a = <<>> THEN TRUE
    ELSE IF CharCode(Head(a)) # CharCode(Head(b))
         THEN CharCode(Head(a)) < CharCode(Head(b))
    ELSE StringLess(Tail(a), Tail(b))

\* fmt.Sprintf("%d", n).
RECURSIVE NatToString(_)
NatToString(n) ==
    IF n < 10 THEN <<DigitChars[n + 1]>>
    ELSE NatToString(n \div 10) \o <<DigitChars[(n % 10) + 1]>>

Sprintf_d(n) == IF n < 0 THEN <<"-">> \o NatToString(0 - n) ELSE NatToString(n)

RECURSIVE DigitsValue(_, _)
DigitsValue(s, acc) ==
    IF s = <<>> THEN acc
    ELSE DigitsValue(Tail(s), 10 * acc + DigitVal(Head(s)))

AllDigits(s) == Len(s) > 0 /\ \A i \in 1..Len(s) : IsDigit(s[i])

\* strconv.Atoi: an optional sign followed by at least one decimal digit.
Atoi(s) ==
    LET signed == Len(s) > 0 /\ s[1] \in {"+", "-"}
        digits == IF signed THEN Tail(s) ELSE s
    IN  IF AllDigits(digits)
        THEN [err |-> FALSE,
              n |-> IF signed /\ s[1] = "-"
                    THEN 0 - DigitsValue(digits, 0)
                    ELSE DigitsValue(digits, 0)]
        ELSE [err |-> TRUE, n |-> 0]

Contains(s, ch) == \E i \in 1..Len(s) : s[i] = ch

\* strings.Split(s, sep) for a one-character separator.
RECURSIVE SplitFrom(_, _, _)
SplitFrom(s, sep, cur) ==
    IF s = <<>> THEN <<cur>>
    ELSE IF Head(s) = sep THEN <<cur>> \o SplitFrom(Tail(s), sep, <<>>)
    ELSE SplitFrom(Tail(s), sep, Append(cur, Head(s)))

Split(s, sep) == SplitFrom(s, sep, <<>>)

\* strings.SplitN(s, sep, 2): cut at the first separator only.
SplitN2(s, sep) ==
    IF Contains(s, sep)
    THEN LET at == CHOOSE i \in 1..Len(s) :
                       s[i] = sep /\ \A j \in 1..(i - 1) : s[j] # sep
         IN  <<SubSeq(s, 1, at - 1), SubSeq(s, at + 1, Len(s))>>
    ELSE <<s>>

\* strings.Join(list, ",").
RECURSIVE Join(_)
Join(list) ==
    IF list = <<>> THEN <<>>
    ELSE IF Len(list) = 1 THEN list[1]
    ELSE list[1] \o <<",">> \o Join(Tail(list))

(***************************************************************************)
(* Sorting.  sort.Sort on at most 6 elements is an insertion sort in every *)
(* Go release (the quicksort / pdqsort paths start at 7 or more elements), *)
(* so the result on the modelled hosts is the one computed here.           *)
(***************************************************************************)
Swap(seq, i, j) == [seq EXCEPT ![i] = seq[j], ![j] = seq[i]]

\* deviceTaskCPUs.Less: only the usage counts are compared.
Less(a, b) == a.count < b.count

RECURSIVE SiftUsage(_, _)
SiftUsage(seq, j) ==
    IF j > 1 /\ Less(seq[j], seq[j - 1])
    THEN SiftUsage(Swap(seq, j, j - 1), j - 1)
    ELSE seq

RECURSIVE InsertionSortUsage(_, _)
InsertionSortUsage(seq, i) ==
    IF i > Len(seq) THEN seq
    ELSE CHOOSE r \in {InsertionSortUsage(sifted, i + 1) :
                         sifted \in {SiftUsage(seq, i)}} : TRUE

\* A balancer that forgets to sort.
NoSortUsage(u) == u

\* sort.Sort(usage).
SortUsage(u) == InsertionSortUsage(u, 2)

RECURSIVE SiftStrings(_, _)
SiftStrings(seq, j) ==
    IF j > 1 /\ StringLess(seq[j], seq[j - 1])
    THEN SiftStrings(Swap(seq, j, j - 1), j - 1)
    ELSE seq

RECURSIVE InsertionSortStrings(_, _)
InsertionSortStrings(seq, i) ==
    IF i > Len(seq) THEN seq
    ELSE CHOOSE r \in {InsertionSortStrings(sifted, i + 1) :
                         sifted \in {SiftStrings(seq, i)}} : TRUE

\* sort.Strings(set).
SortStrings(list) == InsertionSortStrings(list, 2)

(***************************************************************************)
(* The host: /sys/bus/cpu/devices.                                         *)
(* host[id] is "nofile" (no online control file), "1" or "0" (its content).*)
(***************************************************************************)
HostStates ==
    {h \in [CpuIds -> {"nofile", "1", "0"}] :
        \A id \in CpuIds : (h[id] = "nofile") <=> (id \in NonHotplug)}

RECURSIVE SetToSeq(_)
SetToSeq(S) ==
    IF S = {} THEN <<>>
    ELSE LET x == CHOOSE y \in S : TRUE
         IN  <<x>> \o SetToSeq(S \ {x})

\* ioutil.ReadDir: the directory entries, sorted by file name.
ReadDir == SortStrings(SetToSeq({<<"c", "p", "u">> \o Sprintf_d(id) : id \in CpuIds}))

\* fmt.Sscanf(name, "cpu%d", &id): the id, or -1 when nothing was scanned.
Sscanf_cpu(name) ==
    IF Len(name) > 3 /\ SubSeq(name, 1, 3) = <<"c", "p", "u">>
       /\ ~Atoi(SubSeq(name, 4, Len(name))).err
    THEN Atoi(SubSeq(name, 4, Len(name))).n
    ELSE -1

\* Lines 116-149: the ids of the online CPUs, in directory order.
RECURSIVE CountCPUs(_, _)
CountCPUs(h, dents) ==
    IF dents = <<>> THEN <<>>
    ELSE LET id == Sscanf_cpu(Head(dents))
             rest == CountCPUs(h, Tail(dents))
         IN  IF id = -1 THEN rest
             ELSE IF h[id] = "nofile" THEN <<id>> \o rest
             ELSE IF h[id] = "0" THEN rest
             ELSE <<id>> \o rest

\* shared.IntInSlice.
IntInSlice(i, list) == \E k \in 1..Len(list) : list[k] = i

min(x, y) == IF x < y THEN x ELSE y

(***************************************************************************)
(* limits.cpu values of the model.                                         *)
(***************************************************************************)
LimitValues ==
    { <<>>,                                   \* ""
      <<"0">>, <<"1">>, <<"2">>,              \* counts
      <<"-", "1">>,                           \* -1
      <<"0", "-", "1">>,                      \* 0-1
      <<"2", ",", "1", "0">>,                 \* 2,10
      <<"1", ",", "1">>,                      \* 1,1
      <<"3", "-", "x">> }                     \* 3-x (malformed)

\* An instance's expanded configuration, reduced to the limits.cpu key.
ConfigValues ==
    {[ok |-> FALSE, val |-> <<>>]} \cup {[ok |-> TRUE, val |-> v] : v \in LimitValues}

\* Lines 161-165: the effective limit string.
EffectiveLimit(cf, ncpus) ==
    IF ~cf.ok \/ cf.val = <<>> THEN Sprintf_d(ncpus) ELSE cf.val

\* Lines 200-211: the online ids low..high, ascending.
RECURSIVE RangeIds(_, _, _)
RangeIds(low, high, list) ==
    IF low > high THEN <<>>
    ELSE (IF IntInSlice(low, list) THEN <<low>> ELSE <<>>)
         \o RangeIds(low + 1, high, list)

\* Lines 179-231, one chunk: the CPU ids it adds to fixedContainers.
ChunkIds(chunk, list) ==
    IF Contains(chunk, "-")
    THEN LET fields == SplitN2(chunk, "-")
         IN  IF Len(fields) # 2 THEN <<>>
             ELSE IF Atoi(fields[1]).err THEN <<>>
             ELSE IF Atoi(fields[2]).err THEN <<>>
             ELSE RangeIds(Atoi(fields[1]).n, Atoi(fields[2]).n, list)
    ELSE IF Atoi(chunk).err THEN <<>>
    ELSE IF ~IntInSlice(Atoi(chunk).n, list) THEN <<>>
    ELSE <<Atoi(chunk).n>>

RECURSIVE ChunksIds(_, _)
ChunksIds(chunks, list) ==
    IF chunks = <<>> THEN <<>>
    ELSE ChunkIds(Head(chunks), list) \o ChunksIds(Tail(chunks), list)

\* Lines 178-231: the ids a pinning expression adds, in the order added.
PinnedIds(cpu, list) == ChunksIds(Split(cpu, ","), list)

(***************************************************************************)
(* State.                                                                  *)
(***************************************************************************)
VARIABLES
    host,                 \* /sys/bus/cpu/devices/cpu<id>/online, per CPU id
    conf,                 \* per container: ExpandedConfig()["limits.cpu"]
    running,              \* per container: IsRunning()
    cpuset,               \* per container: cpuset.cpus as last written (<<>>: never)
    schedPc,              \* deviceTaskScheduler: start, initial, select, balancing, returned
    inBalance,            \* executions of deviceTaskBalance in progress
    passes,               \* calls of deviceTaskBalance so far
    hotplugs,             \* CPU online/offline transitions so far
    received,             \* history: well-formed notifications received (lines 309, 316)
    dropped,              \* history: wrong-arity notifications received (lines 304, 311)
    monitorPc,            \* monitor goroutine: none, read, send
    hotplugMsg,           \* the notification the monitor is sending on chHotplug
    monitorBuf,           \* the monitor's read buffer b (see Bytes)
    sock,                 \* uevent datagrams buffered in the netlink socket
    deviceSchedRebalance, \* the buffered channel of explicit requests
    sender,               \* per sender: the request it is sending (<<>>: none)
    bpc,                  \* deviceTaskBalance: idle, enter, fixed, balance, write,
                          \*   return, panic
    cpus,                 \* online CPU ids, in directory order
    fixedContainers,      \* CPU id -> containers pinned to it
    balancedContainers,   \* container -> number of CPUs to give it
    pinning,              \* container -> CPU id strings (<<>>: no entry)
    usage,                \* deviceTaskCPUs: records id, strId, count
    fixedDone,            \* keys of fixedContainers already visited (line 249)
    allocated,            \* keys of balancedContainers already visited (line 262)
    alloc,                \* history: the allocations of this pass, in order
    writes,               \* history: per container, the values passed to SetCGroup
    dpc,                  \* devicesApplyDeltaLive: idle, rm, add, returned
    preDevList,           \* the instance's devices before the configuration change
    postDevList,          \* the devices of the new configuration
    rmList,               \* the removed half of the delta
    addList,              \* the added half of the delta
    rmLeft,               \* keys of rmList not visited yet (line 901)
    addLeft,              \* keys of addList not visited yet (line 930)
    derr,                 \* the error devicesApplyDeltaLive returns
    links,                \* the network interfaces of the host
    bridgeMembers,        \* the host interfaces attached to a bridge
    ctnIfaces,            \* the network interfaces inside the instance
    mounts,               \* the paths mounted inside the instance
    hwaddrStore,          \* per device: volatile.<device>.hwaddr ("": none)
    nameStore,            \* per device: the name persisted by txUpdateNic
    ops,                  \* history: the operations the call has performed
    fnPc,                 \* a call of a pure function: idle, called, returned
    fnArgs,               \* its name and arguments
    fnResult              \* the value it returned (<<>>: none yet)

hostVars == <<host, conf, running, cpuset>>
schedVars == <<schedPc, inBalance, passes, hotplugs, received, dropped, monitorPc, hotplugMsg, monitorBuf, sock,
              deviceSchedRebalance, sender>>
passVars == <<cpus, fixedContainers, balancedContainers, pinning, usage, fixedDone,
              allocated, alloc, writes>>
balancerVars == <<hostVars, schedVars, bpc, passVars>>
deltaVars == <<dpc, preDevList, postDevList, rmList, addList, rmLeft, addLeft, derr, links,
               bridgeMembers, ctnIfaces, mounts, hwaddrStore, nameStore, ops>>
fnVars == <<fnPc, fnArgs, fnResult>>
engineVars == <<deltaVars, fnVars>>
vars == <<balancerVars, deltaVars, fnVars>>

\* Capacity of deviceSchedRebalance: make(chan []string, 1).
RebalanceCap == 1

\* The empty map.
EmptyMap == [k \in {} |-> 0]

(***************************************************************************)
(* deviceTaskBalance, lines 151-247: classification of the containers.     *)
(***************************************************************************)
\* Lines 171-172: the limit parses as an integer.
IsBalanced(cf, list) == ~Atoi(EffectiveLimit(cf, Len(list))).err

\* A count that is raised to zero when the limit is negative.
BalancedCountClamped(cf, list) ==
    IF Atoi(EffectiveLimit(cf, Len(list))).n < 0 THEN 0
    ELSE min(Atoi(EffectiveLimit(cf, Len(list))).n, Len(list))

\* Lines 174-175.
BalancedCount(cf, list) == min(Atoi(EffectiveLimit(cf, Len(list))).n, Len(list))

\* The appends to fixedContainers made for containers c..NumContainers, in order.
RECURSIVE FixedAppends(_, _, _, _)
FixedAppends(c, cfs, run, list) ==
    IF c > NumContainers THEN <<>>
    ELSE LET mine == IF run[c] /\ ~IsBalanced(cfs[c], list)
                     THEN PinnedIds(EffectiveLimit(cfs[c], Len(list)), list)
                     ELSE <<>>
         IN  [k \in 1..Len(mine) |-> [ctn |-> c, id |-> mine[k]]]
             \o FixedAppends(c + 1, cfs, run, list)

RECURSIVE CtnsOf(_, _)
CtnsOf(appends, id) ==
    IF appends = <<>> THEN <<>>
    ELSE (IF Head(appends).id = id THEN <<Head(appends).ctn>> ELSE <<>>)
         \o CtnsOf(Tail(appends), id)

\* Lines 153, 178-231.
BuildFixedContainers(cfs, run, list) ==
    CHOOSE fc \in {[id \in {appends[k].id : k \in 1..Len(appends)} |-> CtnsOf(appends, id)] :
                      appends \in {FixedAppends(1, cfs, run, list)}} : TRUE

\* A classification that does not look at the instance's state.
BuildBalancedContainersAll(cfs, run, list) ==
    [c \in {d \in Containers : IsBalanced(cfs[d], list)} |->
        BalancedCount(cfs[c], list)]

\* Lines 154, 166-168, 171-175.
BuildBalancedContainers(cfs, run, list) ==
    [c \in {d \in Containers : run[d] /\ IsBalanced(cfs[d], list)} |->
        BalancedCount(cfs[c], list)]

\* Lines 237-247.
BuildUsage(list) ==
    [k \in 1..Len(list) |-> [id |-> list[k], strId |-> Sprintf_d(list[k]), count |-> 0]]

\* A balancer that allocates the load-balanced containers before the pins.
PhaseOrderBalancedFirst(fixedLeft, balancedLeft, writeLeft) ==
    IF balancedLeft # {} THEN "balance"
    ELSE IF fixedLeft # {} THEN "fixed"
    ELSE IF writeLeft # {} THEN "write"
    ELSE "return"

\* The loops of lines 249, 262 and 282 run one after the other.
PhaseOrder(fixedLeft, balancedLeft, writeLeft) ==
    IF fixedLeft # {} THEN "fixed"
    ELSE IF balancedLeft # {} THEN "balance"
    ELSE IF writeLeft # {} THEN "write"
    ELSE "return"

FixedLeft == DOMAIN fixedContainers \ fixedDone
BalancedLeft == DOMAIN balancedContainers \ allocated
\* A write loop that ranges over every running container.
WriteLeftAllRunning == {c \in Containers : running[c] /\ writes[c] = <<>>}

WriteLeft == {c \in Containers : pinning[c] # <<>> /\ writes[c] = <<>>}

NoPinning == [c \in Containers |-> <<>>]

\* Lines 117-121: ioutil.ReadDir fails, the pass returns at once.
BalanceReadDirFails ==
    /\ bpc = "enter"
    /\ bpc' = "return"
    /\ UNCHANGED <<hostVars, schedVars, passVars>>
    /\ UNCHANGED engineVars

\* Lines 116-247.
BalanceClassify ==
    /\ bpc = "enter"
    /\ \E list \in {CountCPUs(host, ReadDir)} :
       \E fc \in {BuildFixedContainers(conf, running, list)},
          bc \in {BuildBalancedContainers(conf, running, list)} :
           /\ cpus' = list
           /\ fixedContainers' = fc
           /\ balancedContainers' = bc
           /\ usage' = BuildUsage(list)
           /\ bpc' = PhaseOrder(DOMAIN fc, DOMAIN bc, {})
    /\ pinning' = NoPinning
    /\ fixedDone' = {}
    /\ allocated' = {}
    /\ alloc' = <<>>
    /\ writes' = NoPinning
    /\ UNCHANGED <<hostVars, schedVars>>
    /\ UNCHANGED engineVars

RECURSIVE Repeat(_, _)
Repeat(x, n) == IF n = 0 THEN <<>> ELSE <<x>> \o Repeat(x, n - 1)

Occurrences(list, x) == Cardinality({k \in 1..Len(list) : list[k] = x})

\* Lines 249-260, one iteration of the range over fixedContainers.  The CPU id
\* is used as an index into usage; an index past its end is a run-time panic.
ApplyFixed(cpu) ==
    /\ bpc = "fixed"
    /\ cpu \in FixedLeft
    /\ IF cpu >= Len(usage)
       THEN /\ bpc' = "panic"
            /\ UNCHANGED passVars
       ELSE LET id == usage[cpu + 1].strId
                ctns == fixedContainers[cpu]
                pin == [c \in Containers |->
                           pinning[c] \o Repeat(id, Occurrences(ctns, c))]
            IN  /\ pinning' = pin
                /\ usage' = [usage EXCEPT ![cpu + 1].count = @ + Len(ctns)]
                /\ fixedDone' = fixedDone \cup {cpu}
                /\ bpc' = PhaseOrder(FixedLeft \ {cpu}, BalancedLeft,
                                     {c \in Containers : pin[c] # <<>>})
                /\ UNCHANGED <<cpus, fixedContainers, balancedContainers, allocated,
                               alloc, writes>>
    /\ UNCHANGED <<hostVars, schedVars>>
    /\ UNCHANGED engineVars

\* An allocation loop that forgets "count -= 1".
RECURSIVE AllocLoopNoDecrement(_, _, _, _)
AllocLoopNoDecrement(u, i, count, picks) ==
    IF i > Len(u) \/ count = 0 THEN [usage |-> u, picks |-> picks]
    ELSE AllocLoopNoDecrement([u EXCEPT ![i].count = @ + 1], i + 1, count,
                              Append(picks, u[i]))

\* Lines 264-278: the range over the sorted usage list, from position i.
RECURSIVE AllocLoop(_, _, _, _)
AllocLoop(u, i, count, picks) ==
    IF i > Len(u) \/ count = 0 THEN [usage |-> u, picks |-> picks]
    ELSE AllocLoop([u EXCEPT ![i].count = @ + 1], i + 1, count - 1, Append(picks, u[i]))

\* Lines 262-279, one iteration of the range over balancedContainers.
Allocate(ctn) ==
    /\ bpc = "balance"
    /\ ctn \in BalancedLeft
    /\ LET r == AllocLoop(SortUsage(usage), 1, balancedContainers[ctn], <<>>)
           pin == [pinning EXCEPT ![ctn] =
                      @ \o [k \in 1..Len(r.picks) |-> r.picks[k].strId]]
       IN  /\ usage' = r.usage
           /\ pinning' = pin
           /\ alloc' = Append(alloc, [ctn |-> ctn, before |-> usage, picks |-> r.picks,
                                      after |-> r.usage])
           /\ allocated' = allocated \cup {ctn}
           /\ bpc' = PhaseOrder(FixedLeft, BalancedLeft \ {ctn},
                                {c \in Containers : pin[c] # <<>>})
    /\ UNCHANGED <<cpus, fixedContainers, balancedContainers, fixedDone, writes>>
    /\ UNCHANGED <<hostVars, schedVars>>
    /\ UNCHANGED engineVars

\* Line 283-284: the value passed to SetCGroup("cpuset.cpus", ...).
CpusetValue(set) == Join(SortStrings(set))

\* A write loop that returns from the pass when SetCGroup fails.
AfterSetCGroupReturnOnError(ok, left) ==
    IF ok THEN PhaseOrder({}, {}, left) ELSE "return"

\* Lines 284-287: the error of SetCGroup is logged and the loop goes on.
AfterSetCGroup(ok, left) == PhaseOrder({}, {}, left)

\* Lines 282-288, one iteration of the range over pinning; ok: SetCGroup succeeds.
SetPinning(ctn, ok) ==
    /\ bpc = "write"
    /\ ctn \in WriteLeft
    /\ writes' = [writes EXCEPT ![ctn] = Append(@, CpusetValue(pinning[ctn]))]
    /\ cpuset' = IF ok THEN [cpuset EXCEPT ![ctn] = CpusetValue(pinning[ctn])] ELSE cpuset
    /\ bpc' = AfterSetCGroup(ok, WriteLeft \ {ctn})
    /\ UNCHANGED <<host, conf, running, schedVars>>
    /\ UNCHANGED <<cpus, fixedContainers, balancedContainers, pinning, usage, fixedDone,
                   allocated, alloc>>
    /\ UNCHANGED engineVars

(***************************************************************************)
(* deviceTaskScheduler, lines 291-319.                                     *)
(***************************************************************************)
\* A scheduler that starts the pass with a go statement and goes on receiving.
PcGoStatement == "select"

\* deviceTaskBalance(d) is an ordinary call: the loop is inside it until it returns.
PcInCall == "balancing"

\* Lines 299, 309, 316: the call of deviceTaskBalance.
CallBalance ==
    /\ schedPc' = PcInCall
    /\ inBalance' = inBalance + 1
    /\ passes' = passes + 1
    /\ bpc' = "enter"

\* Lines 292-296: deviceMonitorProcessors; ok: socket and bind succeed.
SchedSetupMonitor(ok) ==
    /\ schedPc = "start"
    /\ bpc # "panic"
    /\ IF ok
       THEN schedPc' = "initial" /\ monitorPc' = "read"
       ELSE schedPc' = "returned" /\ monitorPc' = "none"
    /\ UNCHANGED <<hostVars, inBalance, passes, received, dropped, hotplugs, hotplugMsg, monitorBuf, sock,
                   deviceSchedRebalance, sender, bpc, passVars>>
    /\ UNCHANGED engineVars

\* Lines 298-299.
SchedInitialBalance ==
    /\ schedPc = "initial"
    /\ CallBalance
    /\ UNCHANGED <<hostVars, hotplugs, received, dropped, monitorPc, hotplugMsg, monitorBuf, sock,
                   deviceSchedRebalance, sender, passVars>>
    /\ UNCHANGED engineVars

\* Lines 303-309: receive from the unbuffered chHotplug (a rendezvous with the
\* monitor's send at line 100).
SchedRecvHotplug ==
    /\ schedPc = "select"
    /\ bpc # "panic"
    /\ passes < MaxPasses
    /\ monitorPc = "send"
    /\ Len(hotplugMsg) = 2 \/ dropped < MaxDropped
    /\ monitorPc' = "read"
    /\ hotplugMsg' = <<>>
    /\ IF Len(hotplugMsg) # 2
       THEN /\ dropped' = dropped + 1
            /\ UNCHANGED <<schedPc, inBalance, passes, received, bpc>>
       ELSE /\ received' = received + 1
            /\ UNCHANGED dropped
            /\ CallBalance
    /\ UNCHANGED <<hostVars, hotplugs, monitorBuf, sock, deviceSchedRebalance, sender, passVars>>
    /\ UNCHANGED engineVars

\* A scheduler that balances on every request received, whatever its arity.
SchedRecvRebalanceAnyArity ==
    /\ schedPc = "select"
    /\ bpc # "panic"
    /\ passes < MaxPasses
    /\ deviceSchedRebalance # <<>>
    /\ Len(Head(deviceSchedRebalance)) = 3 \/ dropped < MaxDropped
    /\ deviceSchedRebalance' = Tail(deviceSchedRebalance)
    /\ IF Len(Head(deviceSchedRebalance)) # 3
       THEN /\ dropped' = dropped + 1
            /\ UNCHANGED received
       ELSE /\ received' = received + 1
            /\ UNCHANGED dropped
    /\ CallBalance
    /\ UNCHANGED <<hostVars, hotplugs, monitorPc, hotplugMsg, monitorBuf, sock, sender, passVars>>
    /\ UNCHANGED engineVars

\* A scheduler that leaves its loop (return instead of continue) on a request
\* of the wrong arity.
SchedRecvRebalanceReturnOnBadArity ==
    /\ schedPc = "select"
    /\ bpc # "panic"
    /\ passes < MaxPasses
    /\ deviceSchedRebalance # <<>>
    /\ Len(Head(deviceSchedRebalance)) = 3 \/ dropped < MaxDropped
    /\ deviceSchedRebalance' = Tail(deviceSchedRebalance)
    /\ IF Len(Head(deviceSchedRebalance)) # 3
       THEN /\ dropped' = dropped + 1
            /\ schedPc' = "returned"
            /\ UNCHANGED <<inBalance, passes, received, bpc>>
       ELSE /\ received' = received + 1
            /\ UNCHANGED dropped
            /\ CallBalance
    /\ UNCHANGED <<hostVars, hotplugs, monitorPc, hotplugMsg, monitorBuf, sock, sender, passVars>>
    /\ UNCHANGED engineVars

\* Lines 310-316: receive from deviceSchedRebalance.
SchedRecvRebalance ==
    /\ schedPc = "select"
    /\ bpc # "panic"
    /\ passes < MaxPasses
    /\ deviceSchedRebalance # <<>>
    /\ Len(Head(deviceSchedRebalance)) = 3 \/ dropped < MaxDropped
    /\ deviceSchedRebalance' = Tail(deviceSchedRebalance)
    /\ IF Len(Head(deviceSchedRebalance)) # 3
       THEN /\ dropped' = dropped + 1
            /\ UNCHANGED <<schedPc, inBalance, passes, received, bpc>>
       ELSE /\ received' = received + 1
            /\ UNCHANGED dropped
            /\ CallBalance
    /\ UNCHANGED <<hostVars, hotplugs, monitorPc, hotplugMsg, monitorBuf, sock, sender, passVars>>
    /\ UNCHANGED engineVars

\* Line 289: deviceTaskBalance returns to its caller, which loops (line 301).
BalanceReturn ==
    /\ bpc = "return"
    /\ bpc' = "idle"
    /\ inBalance' = inBalance - 1
    /\ schedPc' = "select"
    /\ cpus' = <<>>
    /\ fixedContainers' = EmptyMap
    /\ balancedContainers' = EmptyMap
    /\ pinning' = NoPinning
    /\ usage' = <<>>
    /\ fixedDone' = {}
    /\ allocated' = {}
    /\ alloc' = <<>>
    /\ writes' = NoPinning
    /\ UNCHANGED <<hostVars, passes, received, dropped, hotplugs, monitorPc, hotplugMsg, monitorBuf, sock,
                   deviceSchedRebalance, sender>>
    /\ UNCHANGED engineVars

(***************************************************************************)
(* deviceMonitorProcessors, lines 65-102, and the kernel.                  *)
(***************************************************************************)
\* A uevent of the kernel: a header "<action>@<devpath>" and KEY=VALUE fields,
\* each terminated by a zero byte.  Nul stands for the zero byte.
Nul == "NUL"

Key_ACTION == <<"A", "C", "T", "I", "O", "N">>
Key_DEVPATH == <<"D", "E", "V", "P", "A", "T", "H">>
Key_SUBSYSTEM == <<"S", "U", "B", "S", "Y", "S", "T", "E", "M">>
Key_DRIVER == <<"D", "R", "I", "V", "E", "R">>
Key_SEQNUM == <<"S", "E", "Q", "N", "U", "M">>
Str_cpu == <<"c", "p", "u">>
Str_processor == <<"p", "r", "o", "c", "e", "s", "s", "o", "r">>
Str_online == <<"o", "n", "l", "i", "n", "e">>
Str_offline == <<"o", "f", "f", "l", "i", "n", "e">>
Str_net == <<"n", "e", "t">>
Str_add == <<"a", "d", "d">>
Path_cpu_devices == <<"/", "d", "e", "v", "i", "c", "e", "s", "/", "s", "y", "s", "t", "e", "m", "/", "c", "p", "u", "/">>
Path_net_device == <<"/", "d", "e", "v", "i", "c", "e", "s", "/", "p", "c", "i", "0", "0", "0", "0", ":", "0", "0", "/", "0", "0", "0", "0", ":", "0", "0", ":", "0", "3", ".", "0", "/", "v", "i", "r", "t", "i", "o", "0", "/", "n", "e", "t", "/", "e", "t", "h", "0">>
Path_short_device == <<"/", "d", "e", "v", "i", "c", "e", "s", "/", "x">>

Uevent(action, devpath, fields) ==
    [header |-> action \o <<"@">> \o devpath,
     fields |-> <<<<Key_ACTION, action>>, <<Key_DEVPATH, devpath>>>> \o fields]

\* The events of the model: a CPU goes online or offline, a network interface
\* is added, a device with a short path is taken offline.
CpuEvent(id, action) == [kind |-> "cpu", id |-> id, action |-> action]
OtherEvents ==
    {[kind |-> "net", id |-> 0, action |-> "add"],
     [kind |-> "short", id |-> 0, action |-> "offline"]}

\* The uevent the kernel emits for an event.
UeventOf(e) ==
    IF e.kind = "cpu"
    THEN Uevent(IF e.action = "online" THEN Str_online ELSE Str_offline,
                Path_cpu_devices \o <<"c", "p", "u">> \o Sprintf_d(e.id),
                <<<<Key_SUBSYSTEM, Str_cpu>>, <<Key_DRIVER, Str_processor>>,
                  <<Key_SEQNUM, <<"7">>>>>>)
    ELSE IF e.kind = "net"
    THEN Uevent(Str_add, Path_net_device,
                <<<<Key_SUBSYSTEM, Str_net>>, <<Key_SEQNUM, <<"8">>>>>>)
    ELSE Uevent(Str_offline, Path_short_device, <<<<Key_SEQNUM, <<"9">>>>>>)

\* The bytes of a datagram.
RECURSIVE EncodeFields(_)
EncodeFields(fields) ==
    IF fields = <<>> THEN <<>>
    ELSE Head(fields)[1] \o <<"=">> \o Head(fields)[2] \o <<Nul>> \o EncodeFields(Tail(fields))

Encode(u) == u.header \o <<Nul>> \o EncodeFields(u.fields)

Datagram(e) == Encode(UeventOf(e))

\* Line 68: syscall.Read(fd, b) copies the datagram to the start of b and
\* leaves the rest of b as it was.
ReadInto(buf, datagram) ==
    IF Len(datagram) >= Len(buf) THEN datagram
    ELSE datagram \o SubSeq(buf, Len(datagram) + 1, Len(buf))

\* monitorBuf holds the content of b as the events whose datagrams still have
\* bytes in it, the last one read first; the bytes after them are zero, as
\* make([]byte, ...) left them (line 66).
RECURSIVE Bytes(_)
Bytes(layers) ==
    IF layers = <<>> THEN <<>>
    ELSE ReadInto(Bytes(Tail(layers)), Datagram(Head(layers)))

Longer(e, f) == Len(Datagram(e)) > Len(Datagram(f))

ReadEvent(layers, e) == <<e>> \o SelectSeq(layers, LAMBDA f : Longer(f, e))

\* Lines 73-90.  The loop visits every byte of b; at a zero byte with (Go)
\* index i it takes msg = b[last+1 : i], where last is the index of the zero
\* byte before it and 0 at the first one, and stores strings.SplitN(msg, "=", 2)
\* in props when it has two parts.  The zero bytes after the last byte ever
\* written give empty messages.  i and last below are Go indices + 1; props
\* keeps the four keys that are read afterwards.
NoProps == [subsystem |-> <<>>, driver |-> <<>>, action |-> <<>>, devpath |-> <<>>]

SetProp(props, key, value) ==
    IF key = Key_SUBSYSTEM THEN [props EXCEPT !.subsystem = value]
    ELSE IF key = Key_DRIVER THEN [props EXCEPT !.driver = value]
    ELSE IF key = Key_ACTION THEN [props EXCEPT !.action = value]
    ELSE IF key = Key_DEVPATH THEN [props EXCEPT !.devpath = value]
    ELSE props

ZeroBytes(buf) == {i \in 1..Len(buf) : buf[i] = Nul}

RECURSIVE ScanProps(_, _, _, _)
ScanProps(buf, zeros, last, props) ==
    LET rest == {i \in zeros : i > last}
        msg(i) == SubSeq(buf, last + 1, i - 1)
        fields(i) == SplitN2(msg(i), "=")
        set(i) == IF Len(msg(i)) = 0 \/ Len(fields(i)) # 2 THEN props
                  ELSE SetProp(props, fields(i)[1], fields(i)[2])
    IN  IF rest = {} THEN props
        ELSE CHOOSE r \in {ScanProps(buf, zeros, i, p) :
                               <<i, p>> \in {<<k, set(k)>> :
                                   k \in {k \in rest : \A n \in rest : k <= n}}} : TRUE

ParseProps(buf) == ScanProps(buf, ZeroBytes(buf), 1, NoProps)

\* path.Base: the last element of the path, after trailing slashes are removed;
\* "." for an empty path and "/" for a path of slashes.
RECURSIVE TrimTrailingSlashes(_)
TrimTrailingSlashes(s) ==
    IF s # <<>> /\ s[Len(s)] = "/" THEN TrimTrailingSlashes(SubSeq(s, 1, Len(s) - 1)) ELSE s

Base(pathname) ==
    IF pathname = <<>> THEN <<".">>
    ELSE LET t == TrimTrailingSlashes(pathname)
             slashes == {i \in 1..Len(t) : t[i] = "/"}
         IN  IF t = <<>> THEN <<"/">>
             ELSE IF slashes = {} THEN t
             ELSE SubSeq(t, (CHOOSE i \in slashes : \A n \in slashes : n <= i) + 1, Len(t))

\* The kernel takes a CPU offline or online and emits a uevent; the datagram
\* is queued on the monitor's socket when there is one.
Hotplug(id) ==
    /\ schedPc # "start"
    /\ bpc # "panic"
    /\ id \in CpuIds \ NonHotplug
    /\ Len(sock) < MaxSock
    /\ hotplugs < MaxHotplug
    /\ hotplugs' = hotplugs + 1
    /\ host' = [host EXCEPT ![id] = IF @ = "1" THEN "0" ELSE "1"]
    /\ sock' = IF monitorPc = "none" THEN sock
               ELSE Append(sock, CpuEvent(id, IF host[id] = "1" THEN "offline" ELSE "online"))
    /\ UNCHANGED <<conf, running, cpuset, schedPc, inBalance, passes, received, dropped, monitorPc,
                   hotplugMsg, monitorBuf, deviceSchedRebalance, sender, bpc, passVars>>
    /\ UNCHANGED engineVars

\* The kernel emits the uevent of a device that is not a CPU.
OtherUevent(e) ==
    /\ monitorPc # "none"
    /\ bpc # "panic"
    /\ Len(sock) < MaxSock
    /\ sock' = Append(sock, e)
    /\ UNCHANGED <<hostVars, schedPc, inBalance, passes, received, dropped, hotplugs, monitorPc,
                   hotplugMsg, monitorBuf, deviceSchedRebalance, sender, bpc, passVars>>
    /\ UNCHANGED engineVars

\* Lines 68-100: read one datagram, filter it, and start sending the notification.
MonitorRead ==
    /\ monitorPc = "read"
    /\ bpc # "panic"
    /\ sock # <<>>
    /\ sock' = Tail(sock)
    /\ monitorBuf' = ReadEvent(monitorBuf, Head(sock))
    /\ \E props \in {ParseProps(buf) : buf \in {Bytes(ReadEvent(monitorBuf, Head(sock)))}} :
           IF props.subsystem # Str_cpu \/ props.driver # Str_processor
           THEN UNCHANGED <<monitorPc, hotplugMsg>>
           ELSE IF props.action # Str_offline /\ props.action # Str_online
           THEN UNCHANGED <<monitorPc, hotplugMsg>>
           ELSE /\ monitorPc' = "send"
                /\ hotplugMsg' = <<Base(props.devpath), props.action>>
    /\ UNCHANGED <<hostVars, schedPc, inBalance, passes, received, dropped, hotplugs, deviceSchedRebalance,
                   sender, bpc, passVars>>
    /\ UNCHANGED engineVars

(***************************************************************************)
(* Senders on deviceSchedRebalance (callers outside this file).            *)
(***************************************************************************)
Request(n) == [k \in 1..n |-> "arg"]

\* A goroutine reaches "deviceSchedRebalance <- e" with a request of n elements.
SenderBegin(s, n) ==
    /\ bpc # "panic"
    /\ sender[s] = <<>>
    /\ sender' = [sender EXCEPT ![s] = Request(n)]
    /\ UNCHANGED <<hostVars, schedPc, inBalance, passes, hotplugs, received, dropped, monitorPc,
                   hotplugMsg, monitorBuf,
                   sock, deviceSchedRebalance, bpc, passVars>>
    /\ UNCHANGED engineVars

\* The send completes once the channel's buffer has room.
SenderDeliver(s) ==
    /\ bpc # "panic"
    /\ sender[s] # <<>>
    /\ Len(deviceSchedRebalance) < RebalanceCap
    /\ deviceSchedRebalance' = Append(deviceSchedRebalance, sender[s])
    /\ sender' = [sender EXCEPT ![s] = <<>>]
    /\ UNCHANGED <<hostVars, schedPc, inBalance, passes, hotplugs, received, dropped, monitorPc,
                   hotplugMsg, monitorBuf,
                   sock, bpc, passVars>>
    /\ UNCHANGED engineVars

(***************************************************************************)
(* Devices, lines 350-443 and 673-677.                                     *)
(***************************************************************************)
\* Device names (the keys of shared.Devices) of the instance.
DeviceNames == 1..NumDevices

\* Interface names.
Name_br0 == <<"b", "r", "0">>
Name_eth1 == <<"e", "t", "h", "1">>

\* Line 698: fmt.Sprintf("eth%d", i).
Name_eth(i) == <<"e", "t", "h">> \o Sprintf_d(i)

\* Lines 673-677: tempNic() is "veth" and eight random hex digits; the names
\* drawn for one device are fresh and differ from each other.
TempNic(key, side) == <<"v", "e", "t", "h">> \o Sprintf_d(key) \o <<side>>

\* A shared.Device is a map from attribute to string; an absent attribute
\* reads as "".  The attributes the delta engine reads.
Device(t) ==
    [type |-> t, nictype |-> "", parent |-> <<>>, name |-> <<>>, hwaddr |-> "",
     source |-> "", path |-> "", major |-> <<>>, minor |-> <<>>, mode |-> <<>>]

MacTemplate == "00:16:3e:xx:xx:xx"
ExplicitMac == "00:16:3e:aa:bb:cc"
GeneratedMac == "00:16:3e:12:34:56"
StoredMac == "00:16:3e:65:43:21"

\* The devices of the model.
DeviceValues ==
    { [Device("nic") EXCEPT !.nictype = "bridged", !.parent = Name_br0,
                            !.name = Name_eth(0)],
      [Device("nic") EXCEPT !.nictype = "p2p", !.hwaddr = ExplicitMac],
      [Device("nic") EXCEPT !.nictype = "physical", !.parent = Name_eth1,
                            !.name = Name_eth(1)],
      [Device("nic") EXCEPT !.nictype = "macvlan", !.parent = Name_eth1],
      [Device("nic") EXCEPT !.name = Name_eth(0)],
      [Device("nic") EXCEPT !.nictype = "bridge", !.parent = Name_br0],
      [Device("nic") EXCEPT !.nictype = "bridged"],
      [Device("disk") EXCEPT !.source = "/srv/data", !.path = "/mnt"],
      [Device("disk") EXCEPT !.path = "/mnt2"],
      [Device("unix-char") EXCEPT !.path = "/dev/x", !.major = <<"1", "0">>,
                                  !.minor = <<"2", "0", "0">>,
                                  !.mode = <<"0", "4", "4", "0">>],
      [Device("unix-block") EXCEPT !.path = "/dev/sdb"],
      Device("none") }

\* The device sets (shared.Devices) of the model.
DeviceSets == UNION {[S -> DeviceValues] : S \in SUBSET DeviceNames}

\* The devices an instance of the model has before the change.
InstalledValues ==
    { [Device("nic") EXCEPT !.nictype = "bridged", !.parent = Name_br0,
                            !.name = Name_eth(0)],
      [Device("nic") EXCEPT !.nictype = "p2p", !.hwaddr = ExplicitMac],
      [Device("disk") EXCEPT !.source = "/srv/data", !.path = "/mnt"],
      [Device("unix-char") EXCEPT !.path = "/dev/x", !.major = <<"1", "0">>,
                                  !.minor = <<"2", "0", "0">>,
                                  !.mode = <<"0", "4", "4", "0">>],
      [Device("unix-block") EXCEPT !.path = "/dev/sdb"] }

InstalledSets == UNION {[S -> InstalledValues] : S \in SUBSET DeviceNames}

\* Lines 364-373: strconv.ParseInt(strmode, 8, 32) of an unsigned octal string.
RECURSIVE OctalValue(_, _)
OctalValue(s, acc) ==
    IF s = <<>> THEN acc ELSE OctalValue(Tail(s), acc * 8 + DigitVal(Head(s)))

AllOctal(s) == Len(s) > 0 /\ \A i \in 1..Len(s) : IsDigit(s[i]) /\ DigitVal(s[i]) < 8

devModeOct(strmode) ==
    IF strmode = <<>> THEN [err |-> FALSE, n |-> 432]
    ELSE IF AllOctal(strmode) THEN [err |-> FALSE, n |-> OctalValue(strmode, 0)]
    ELSE IF Len(strmode) > 1 /\ Head(strmode) = "+" /\ AllOctal(Tail(strmode))
    THEN [err |-> FALSE, n |-> OctalValue(Tail(strmode), 0)]
    ELSE IF Len(strmode) > 1 /\ Head(strmode) = "-" /\ AllOctal(Tail(strmode))
    THEN [err |-> FALSE, n |-> 0 - OctalValue(Tail(strmode), 0)]
    ELSE [err |-> TRUE, n |-> 0]

\* The octal digit at position p (0: others, 1: group, 2: user) of the low nine
\* bits of a mode (two's complement for a negative one).
OctalDigit(m, p) == ((m % 512) \div (IF p = 0 THEN 1 ELSE IF p = 1 THEN 8 ELSE 64)) % 8

\* A test of the owner's read bit alone.
modeHasReadOwner(m) == OctalDigit(m, 2) \div 4 = 1

\* Lines 350-355: mode & 0444 != 0.
modeHasRead(m) == \E p \in 0..2 : OctalDigit(m, p) \div 4 = 1

\* Lines 357-362: mode & 0222 != 0.
modeHasWrite(m) == \E p \in 0..2 : (OctalDigit(m, p) \div 2) % 2 = 1

\* Lines 375-388.
devModeString(strmode) ==
    LET i == devModeOct(strmode)
    IN  IF i.err THEN [err |-> TRUE, s |-> <<>>]
        ELSE [err |-> FALSE,
              s |-> <<"m">> \o (IF modeHasRead(i.n) THEN <<"r">> ELSE <<>>)
                            \o (IF modeHasWrite(i.n) THEN <<"w">> ELSE <<>>)]

\* The device numbers syscall.Stat reports for a device node of the host.
StatMajor == 8
StatMinor == 16

\* Lines 401-443; statOk: syscall.Stat of the device path succeeds (line 391).
deviceCgroupInfo(dev, statOk) ==
    LET fail == [err |-> TRUE, s |-> <<>>]
        t == IF dev.type = "unix-char" THEN <<"c">> ELSE <<"b">>
        mode == devModeString(dev.mode)
        line(major, minor) ==
            IF mode.err THEN fail
            ELSE [err |-> FALSE,
                  s |-> t \o <<" ">> \o Sprintf_d(major) \o <<":">> \o Sprintf_d(minor)
                          \o <<" ">> \o mode.s]
    IN  IF dev.type \notin {"unix-char", "unix-block"} THEN fail
        ELSE IF dev.major = <<>> /\ dev.minor = <<>>
        THEN (IF statOk THEN line(StatMajor, StatMinor) ELSE fail)
        ELSE IF dev.major # <<>> /\ dev.minor # <<>>
        THEN (IF Atoi(dev.major).err \/ Atoi(dev.minor).err THEN fail
              ELSE line(Atoi(dev.major).n, Atoi(dev.minor).n))
        ELSE fail

(***************************************************************************)
(* The live device delta engine: setupNic, removeInterface,                *)
(* detachInterface, txUpdateNic, DetachUnixDev, AttachUnixDev and          *)
(* devicesApplyDeltaLive, lines 673-968.                                   *)
(***************************************************************************)
\* The error values: err == nil, or the place that produced the error.
NoError == [kind |-> "nil", dev |-> 0]
Error(kind, key) == [kind |-> kind, dev |-> key]

\* The outcomes of the external operations of one removal step: the first one
\* to fail, if any ("notrunning": InitPid() returns -1).
RemoveOutcomes == {"none", "exec", "umount", "stat", "notrunning", "forkumount", "rm_node"}

\* The outcomes the removal of a device can have.
RemoveOutcomesOf(dev) ==
    IF dev.type = "nic" THEN {"none", "exec"}
    ELSE IF dev.type = "disk" THEN {"none", "umount"}
    ELSE IF dev.type \in {"unix-block", "unix-char"}
    THEN {"none", "stat", "notrunning", "forkumount", "rm_node"}
    ELSE {"none"}

\* The outcomes of the external operations of one addition step.
AddOutcomes ==
    {"none", "genmac", "db_hwaddr", "link_add", "brctl", "set_addr", "up", "attach",
     "db_name", "mount", "unixdev"}

\* The outcomes the addition of a device can have.
AddOutcomesOf(dev) ==
    IF dev.type = "nic"
    THEN {"none", "genmac", "db_hwaddr", "link_add", "brctl", "set_addr", "up", "attach",
          "db_name"}
    ELSE IF dev.type = "disk" THEN {"none", "mount"}
    ELSE IF dev.type \in {"unix-block", "unix-char"} THEN {"none", "unixdev"}
    ELSE {"none"}

\* Devices.Update: a device of one set is in its half of the delta unless the
\* other set holds an identical device under the same name.
UpdateHalf(from, to) ==
    [k \in {n \in DOMAIN from : n \notin DOMAIN to \/ from[n] # to[n]} |-> from[k]]

Update(preDevs, postDevs) ==
    [rm |-> UpdateHalf(preDevs, postDevs), add |-> UpdateHalf(postDevs, preDevs)]

\* An engine that takes every device of preDevList for removed.
RmListAllPre(preDevs, postDevs) == preDevs

\* Line 898: rmList.
RmList(preDevs, postDevs) == Update(preDevs, postDevs).rm

\* Line 898: addList.
AddList(preDevs, postDevs) == Update(preDevs, postDevs).add

\* An engine that runs its addition loop before its removal loop.
NextDeltaPcAddFirst(e, rmKeys, addKeys) ==
    IF e # NoError THEN "returned"
    ELSE IF addKeys # {} THEN "add"
    ELSE IF rmKeys # {} THEN "rm"
    ELSE "returned"

\* An engine that goes on with the next device after a failed step.
NextDeltaPcIgnoreError(e, rmKeys, addKeys) ==
    IF rmKeys # {} THEN "rm"
    ELSE IF addKeys # {} THEN "add"
    ELSE "returned"

\* Lines 901-967: every error returns at once; the loop over rmList ends
\* before the loop over addList starts; then the function returns nil.
NextDeltaPc(e, rmKeys, addKeys) ==
    IF e # NoError THEN "returned"
    ELSE IF rmKeys # {} THEN "rm"
    ELSE IF addKeys # {} THEN "add"
    ELSE "returned"

Op(kind, key) == [op |-> kind, dev |-> key, arg |-> ""]

\* An operation that is given an address.
OpArg(kind, key, arg) == [op |-> kind, dev |-> key, arg |-> arg]

\* A removeInterface that deletes nothing.
removeInterfaceKeeps(ifs, nic) == ifs

\* Lines 810-812: ip link del; its exit status is discarded.  Deleting one end
\* of a veth pair deletes the other end with it.
removeInterface(ifs, nic) ==
    IF \E k \in DeviceNames : nic \in {TempNic(k, "a"), TempNic(k, "b")}
    THEN LET k == CHOOSE k \in DeviceNames : nic \in {TempNic(k, "a"), TempNic(k, "b")}
         IN  IF TempNic(k, "b") \in ifs
             THEN ifs \ {TempNic(k, "a"), TempNic(k, "b")}
             ELSE ifs \ {nic}
    ELSE ifs \ {nic}

ValidNicTypes == {"bridged", "physical", "p2p", "macvlan"}
NeedsParent == {"bridged", "physical", "macvlan"}

\* Lines 709-720.
NicCheck(d) ==
    IF d.nictype = "" THEN "missing_nictype"
    ELSE IF d.nictype \notin ValidNicTypes THEN "bad_nictype"
    ELSE IF d.nictype \in NeedsParent /\ d.parent = <<>> THEN "missing_parent"
    ELSE "nil"

RECURSIVE FirstUnused(_, _)
FirstUnused(list, i) ==
    IF Name_eth(i) \notin list THEN Name_eth(i) ELSE FirstUnused(list, i + 1)

\* Lines 688-704; listOk: lxContainer.Interfaces() succeeds.
nextUnusedNic(list, listOk) ==
    IF ~listOk \/ list = {} THEN Name_eth(0) ELSE FirstUnused(list, 0)

\* generateMacAddr: the template with every x replaced by a random hex digit.
generateMacAddr(template) == IF template = MacTemplate THEN GeneratedMac ELSE template

\* An address choice that generates an address whatever is persisted.
ChooseHwaddrAlwaysGenerates(storedAddr, attr) ==
    generateMacAddr(IF attr # "" THEN attr ELSE MacTemplate)

\* Lines 728-743: the persisted address, or a generated one when there is none.
ChooseHwaddr(storedAddr, attr) ==
    IF storedAddr = ""
    THEN generateMacAddr(IF attr # "" THEN attr ELSE MacTemplate)
    ELSE storedAddr

\* Lines 706-808.  The result: the error, the host-side link to move into the
\* instance, the device with its name filled in, and the links, bridge
\* members, persisted addresses and operations after the call.
setupNic(key, d0, outcome, listOk, ifs, members, stored, list) ==
    LET d == IF d0.name = <<>> THEN [d0 EXCEPT !.name = nextUnusedNic(list, listOk)] ELSE d0
        res(e, tmp, l, m, st, o) ==
            [err |-> e, tmp |-> tmp, d |-> d, links |-> l, members |-> m,
             store |-> st, ops |-> o]
        generate == stored[key] = ""
        hwaddr == ChooseHwaddr(stored[key], d.hwaddr)
        persist == generate /\ hwaddr # d.hwaddr
        st1 == IF persist THEN [stored EXCEPT ![key] = hwaddr] ELSE stored
        o1 == IF persist THEN <<OpArg("db_hwaddr", key, hwaddr)>> ELSE <<>>
        veth == d.nictype \in {"bridged", "p2p"}
        n1 == TempNic(key, "a")
        n2 == TempNic(key, "b")
        created == IF veth THEN {n1, n2}
                   ELSE IF d.nictype = "macvlan" THEN {n1} ELSE {}
        dev == IF veth THEN n2
               ELSE IF d.nictype = "physical" THEN d.parent ELSE n1
        brctl == veth /\ d.nictype = "bridge"
        l2 == ifs \cup created
        m2 == IF brctl THEN members \cup {n1} ELSE members
        o2 == o1 \o (IF created # {} THEN <<Op("link_add", key)>> ELSE <<>>)
        deleted == removeInterface(l2, dev)
        odel == IF deleted # l2 THEN <<Op("link_del", key)>> ELSE <<>>
    IN  IF NicCheck(d0) # "nil"
        THEN res(Error(NicCheck(d0), key), <<>>, ifs, members, stored, <<>>)
        ELSE IF generate /\ outcome = "genmac"
        THEN res(Error("genmac", key), <<>>, ifs, members, stored, <<>>)
        ELSE IF persist /\ outcome = "db_hwaddr"
        THEN res(Error("db_hwaddr", key), <<>>, ifs, members, stored, <<>>)
        ELSE IF created # {} /\ outcome = "link_add"
        THEN res(Error("link_add", key), <<>>, ifs, members, st1, o1)
        ELSE IF brctl /\ outcome = "brctl"
        THEN res(Error("brctl", key), <<>>, removeInterface(l2, n2), members, st1,
                 o2 \o <<Op("link_del", key)>>)
        ELSE IF outcome = "set_addr"
        THEN res(Error("set_addr", key), <<>>, deleted, m2 \cap deleted, st1, o2 \o odel)
        ELSE IF outcome = "up"
        THEN res(Error("up", key), <<>>, deleted, m2 \cap deleted, st1,
                 o2 \o <<OpArg("link_set_addr", key, hwaddr)>> \o odel)
        ELSE res(NoError, dev, l2, m2, st1,
                 o2 \o <<OpArg("link_set_addr", key, hwaddr), Op("link_up", key)>>)

\* The result of one step of the engine on the state it is given.
StepResult(e, ifs, members, inside, mnt, stored, names, o) ==
    [err |-> e, links |-> ifs, members |-> members, ctnIfaces |-> inside,
     mounts |-> mnt, hwaddrStore |-> stored, nameStore |-> names, ops |-> o]

\* The step that changes nothing and returns e.
Unchanged(e) ==
    StepResult(e, links, bridgeMembers, ctnIfaces, mounts, hwaddrStore, nameStore, <<>>)

\* Lines 829-846 and 903-909: removal of a nic.
RemoveNic(key, dev, outcome) ==
    IF dev.name = <<>> THEN Unchanged(Error("noname", key))
    ELSE IF outcome = "exec" THEN Unchanged(Error("detach_nic", key))
    ELSE StepResult(NoError, links, bridgeMembers, ctnIfaces \ {dev.name}, mounts,
                    hwaddrStore, nameStore, <<Op("ctn_link_del", key)>>)

\* Lines 910-914: c.DetachMount(dev).
RemoveDisk(key, dev, outcome) ==
    IF outcome = "umount" THEN Unchanged(Error("detach_mount", key))
    ELSE StepResult(NoError, links, bridgeMembers, ctnIfaces, mounts \ {dev.path},
                    hwaddrStore, nameStore, <<Op("umount", key)>>)

\* The control files of an instance's cgroups that the file names.
Key_cpuset_cpus == "cpuset.cpus"
Key_devices_remove == "devices.remove"
Key_devices_allow == "devices.allow"

\* A removal of the device entry that writes the file of the CPU pinning.
SetCgroupItemOnCpuset(key) == OpArg("cgroup_remove", key, Key_cpuset_cpus)

\* Line 868: c.c.SetCgroupItem("devices.remove", cginfo).
SetCgroupItem(key) == OpArg("cgroup_remove", key, Key_devices_remove)

\* Lines 863-884.
DetachUnixDev(key, dev, outcome) ==
    LET cginfo == deviceCgroupInfo(dev, outcome # "stat")
        written == <<SetCgroupItem(key)>>
    IN  IF cginfo.err THEN Unchanged(Error("cginfo", key))
        ELSE IF outcome = "notrunning"
        THEN StepResult(NoError, links, bridgeMembers, ctnIfaces, mounts, hwaddrStore,
                        nameStore, written)
        ELSE IF outcome = "forkumount"
        THEN StepResult(Error("forkumount", key), links, bridgeMembers, ctnIfaces, mounts,
                        hwaddrStore, nameStore, written)
        ELSE IF outcome = "rm_node"
        THEN StepResult(Error("rm_node", key), links, bridgeMembers, ctnIfaces,
                        mounts \ {dev.path}, hwaddrStore, nameStore,
                        written \o <<Op("node_umount", key)>>)
        ELSE StepResult(NoError, links, bridgeMembers, ctnIfaces, mounts \ {dev.path},
                        hwaddrStore, nameStore,
                        written \o <<Op("node_umount", key), Op("node_remove", key)>>)

\* Lines 932-945: addition of a nic.
AddNic(key, dev, outcome, listOk) ==
    LET r == setupNic(key, dev, outcome, listOk, links, bridgeMembers, hwaddrStore,
                      ctnIfaces)
        gone == removeInterface(r.links, r.tmp)
    IN  IF r.err # NoError
        THEN StepResult(r.err, r.links, r.members, ctnIfaces, mounts, r.store, nameStore,
                        r.ops)
        ELSE IF outcome = "attach"
        THEN StepResult(Error("attach", key), gone, r.members \cap gone, ctnIfaces, mounts,
                        r.store, nameStore,
                        r.ops \o (IF gone # r.links THEN <<Op("link_del", key)>> ELSE <<>>))
        ELSE IF outcome = "db_name"
        THEN StepResult(Error("db_name", key), r.links \ {r.tmp}, r.members,
                        ctnIfaces \cup {r.d.name}, mounts, r.store, nameStore,
                        r.ops \o <<Op("attach", key)>>)
        ELSE StepResult(NoError, r.links \ {r.tmp}, r.members, ctnIfaces \cup {r.d.name},
                        mounts, r.store, [nameStore EXCEPT ![key] = r.d.name],
                        r.ops \o <<Op("attach", key), Op("db_name", key)>>)

\* Lines 946-953: addition of a disk.
AddDisk(key, dev, outcome) ==
    IF dev.source = "" \/ dev.path = "" THEN Unchanged(Error("no_source_or_path", key))
    ELSE IF outcome = "mount" THEN Unchanged(Error("attach_mount", key))
    ELSE StepResult(NoError, links, bridgeMembers, ctnIfaces, mounts \cup {dev.path},
                    hwaddrStore, nameStore, <<Op("mount", key)>>)

\* Lines 886-888 and 954-963: c.AttachUnixDev(dev), that is c.setupUnixDev(dev).
AttachUnixDev(key, dev, outcome) ==
    IF outcome = "unixdev" THEN Unchanged(Error("attach_unixdev", key))
    ELSE StepResult(NoError, links, bridgeMembers, ctnIfaces, mounts \cup {dev.path},
                    hwaddrStore, nameStore, <<OpArg("unixdev", key, Key_devices_allow)>>)

\* The state of the engine and of the resources it acts on after a step.
Apply(r) ==
    /\ derr' = r.err
    /\ links' = r.links
    /\ bridgeMembers' = r.members
    /\ ctnIfaces' = r.ctnIfaces
    /\ mounts' = r.mounts
    /\ hwaddrStore' = r.hwaddrStore
    /\ nameStore' = r.nameStore
    /\ ops' = ops \o r.ops

\* Line 898: devicesApplyDeltaLive is called with the instance's devices and
\* the devices of its new configuration.
ApplyDeltaLive(postDevs) ==
    /\ dpc = "idle"
    /\ postDevList' = postDevs
    /\ rmList' = RmList(preDevList, postDevs)
    /\ addList' = AddList(preDevList, postDevs)
    /\ rmLeft' = DOMAIN rmList'
    /\ addLeft' = DOMAIN addList'
    /\ dpc' = NextDeltaPc(NoError, rmLeft', addLeft')
    /\ UNCHANGED <<preDevList, derr, links, bridgeMembers, ctnIfaces, mounts, hwaddrStore,
                   nameStore, ops>>
    /\ UNCHANGED <<balancerVars, fnVars>>

\* Lines 901-926, one iteration of the range over rmList.
RemoveDevice(key, outcome) ==
    /\ dpc = "rm"
    /\ key \in rmLeft
    /\ outcome \in RemoveOutcomesOf(rmList[key])
    /\ LET dev == rmList[key]
       IN  \E r \in {IF dev.type = "nic" THEN RemoveNic(key, dev, outcome)
                     ELSE IF dev.type = "disk" THEN RemoveDisk(key, dev, outcome)
                     ELSE IF dev.type \in {"unix-block", "unix-char"}
                     THEN DetachUnixDev(key, dev, outcome)
                     ELSE Unchanged(NoError)} :
               /\ Apply(r)
               /\ dpc' = NextDeltaPc(r.err, rmLeft \ {key}, addLeft)
    /\ rmLeft' = rmLeft \ {key}
    /\ UNCHANGED <<preDevList, postDevList, rmList, addList, addLeft>>
    /\ UNCHANGED <<balancerVars, fnVars>>

\* Lines 930-965, one iteration of the range over addList.
AddDevice(key, outcome, listOk) ==
    /\ dpc = "add"
    /\ key \in addLeft
    /\ outcome \in AddOutcomesOf(addList[key])
    /\ listOk \/ (addList[key].type = "nic" /\ addList[key].name = <<>>)
    /\ LET dev == addList[key]
       IN  \E r \in {IF dev.type = "nic" THEN AddNic(key, dev, outcome, listOk)
                     ELSE IF dev.type = "disk" THEN AddDisk(key, dev, outcome)
                     ELSE IF dev.type \in {"unix-block", "unix-char"}
                     THEN AttachUnixDev(key, dev, outcome)
                     ELSE Unchanged(NoError)} :
               /\ Apply(r)
               /\ dpc' = NextDeltaPc(r.err, {}, addLeft \ {key})
    /\ addList' = IF addList[key].type = "nic" /\ NicCheck(addList[key]) = "nil"
                     /\ addList[key].name = <<>>
                  THEN [addList EXCEPT ![key].name = nextUnusedNic(ctnIfaces, listOk)]
                  ELSE addList
    /\ addLeft' = addLeft \ {key}
    /\ UNCHANGED <<preDevList, postDevList, rmList, rmLeft>>
    /\ UNCHANGED <<balancerVars, fnVars>>

\* No call of devicesApplyDeltaLive is in progress and none has been made.
DeltaIdle ==
    /\ dpc = "idle"
    /\ preDevList = EmptyMap
    /\ postDevList = EmptyMap
    /\ rmList = EmptyMap
    /\ addList = EmptyMap
    /\ rmLeft = {}
    /\ addLeft = {}
    /\ derr = NoError
    /\ links = {}
    /\ bridgeMembers = {}
    /\ ctnIfaces = {}
    /\ mounts = {}
    /\ hwaddrStore = [k \in DeviceNames |-> ""]
    /\ nameStore = [k \in DeviceNames |-> <<>>]
    /\ ops = <<>>

(***************************************************************************)
(* validDeviceConfig, lines 601-671.                                       *)
(***************************************************************************)
\* A validator whose nic case accepts the keys of a disk as well.
validDeviceConfigNicTakesDiskKeys(t, k, v) ==
    IF k = "type" THEN FALSE
    ELSE IF t \in {"unix-char", "unix-block"}
    THEN k \in {"path", "major", "minor", "uid", "gid", "mode"}
    ELSE IF t = "nic"
    THEN (IF k \in {"parent", "name", "hwaddr", "mtu", "path", "source"} THEN TRUE
          ELSE IF k = "nictype" THEN v \in {"physical", "bridged", "p2p", "macvlan"}
          ELSE FALSE)
    ELSE IF t = "disk"
    THEN k \in {"path", "source", "readonly", "optional"}
    ELSE FALSE

validDeviceConfig(t, k, v) ==
    IF k = "type" THEN FALSE
    ELSE IF t = "unix-char"
    THEN k \in {"path", "major", "minor", "uid", "gid", "mode"}
    ELSE IF t = "unix-block"
    THEN k \in {"path", "major", "minor", "uid", "gid", "mode"}
    ELSE IF t = "nic"
    THEN (IF k \in {"parent", "name", "hwaddr", "mtu"} THEN TRUE
          ELSE IF k = "nictype" THEN v \in {"physical", "bridged", "p2p", "macvlan"}
          ELSE FALSE)
    ELSE IF t = "disk"
    THEN k \in {"path", "source", "readonly", "optional"}
    ELSE IF t = "none" THEN FALSE
    ELSE FALSE

\* The arguments of the calls of the model.
TypeNames == {"none", "nic", "disk", "unix-char", "unix-block", "bogus", ""}
KeyNames ==
    {"type", "parent", "name", "hwaddr", "mtu", "nictype", "path", "source", "readonly",
     "optional", "major", "minor", "uid", "gid", "mode", "bogus", ""}
ValueStrings == {"", "bridged", "physical", "p2p", "macvlan", "bridge", "/x"}

\* validDeviceConfig(t, k, v) is called and returns.
CallValidDeviceConfig ==
    /\ fnPc = "called"
    /\ fnArgs.fn = "validDeviceConfig"
    /\ fnResult' = <<validDeviceConfig(fnArgs.t, fnArgs.k, fnArgs.v)>>
    /\ fnPc' = "returned"
    /\ UNCHANGED fnArgs
    /\ UNCHANGED <<balancerVars, deltaVars>>

\* No function call is in progress.
FnIdle ==
    /\ fnPc = "idle"
    /\ fnArgs = <<>>
    /\ fnResult = <<>>


(***************************************************************************)
(* dbDeviceTypeToString and deviceTypeToDbType, lines 567-599.             *)
(***************************************************************************)
\* A decoder that takes an unknown integer for "none".
dbDeviceTypeToStringCoerces(t) ==
    IF t = 1 THEN [s |-> "nic", err |-> FALSE]
    ELSE IF t = 2 THEN [s |-> "disk", err |-> FALSE]
    ELSE IF t = 3 THEN [s |-> "unix-char", err |-> FALSE]
    ELSE IF t = 4 THEN [s |-> "unix-block", err |-> FALSE]
    ELSE [s |-> "none", err |-> FALSE]

\* Lines 567-582.
dbDeviceTypeToString(t) ==
    IF t = 0 THEN [s |-> "none", err |-> FALSE]
    ELSE IF t = 1 THEN [s |-> "nic", err |-> FALSE]
    ELSE IF t = 2 THEN [s |-> "disk", err |-> FALSE]
    ELSE IF t = 3 THEN [s |-> "unix-char", err |-> FALSE]
    ELSE IF t = 4 THEN [s |-> "unix-block", err |-> FALSE]
    ELSE [s |-> "", err |-> TRUE]

\* Lines 584-599.
deviceTypeToDbType(t) ==
    IF t = "none" THEN [n |-> 0, err |-> FALSE]
    ELSE IF t = "nic" THEN [n |-> 1, err |-> FALSE]
    ELSE IF t = "disk" THEN [n |-> 2, err |-> FALSE]
    ELSE IF t = "unix-char" THEN [n |-> 3, err |-> FALSE]
    ELSE IF t = "unix-block" THEN [n |-> 4, err |-> FALSE]
    ELSE [n |-> -1, err |-> TRUE]

\* The integers and the strings the codec is called with.
DbTypes == (0 - NegDbTypes)..MaxDbType
CodecNames == TypeNames \cup {"Nic", "unix", "0"}

\* dbDeviceTypeToString(t) is called and returns.
CallDbDeviceTypeToString ==
    /\ fnPc = "called"
    /\ fnArgs.fn = "dbDeviceTypeToString"
    /\ fnResult' = <<dbDeviceTypeToString(fnArgs.n)>>
    /\ fnPc' = "returned"
    /\ UNCHANGED fnArgs
    /\ UNCHANGED <<balancerVars, deltaVars>>

\* deviceTypeToDbType(t) is called and returns.
CallDeviceTypeToDbType ==
    /\ fnPc = "called"
    /\ fnArgs.fn = "deviceTypeToDbType"
    /\ fnResult' = <<deviceTypeToDbType(fnArgs.t)>>
    /\ fnPc' = "returned"
    /\ UNCHANGED fnArgs
    /\ UNCHANGED <<balancerVars, deltaVars>>

(***************************************************************************)
(* Calls of deviceCgroupInfo, lines 401-443.                               *)
(***************************************************************************)
\* The attribute values deviceCgroupInfo is called with.
MajorStrings == {<<>>, <<"1", "0">>, <<"0", "8">>, <<"x">>}
MinorStrings == {<<>>, <<"2", "0", "0">>, <<"0">>}
ModeStrings ==
    {<<>>, <<"0", "4", "4", "0">>, <<"0", "6", "6", "0">>, <<"0", "2", "2", "0">>,
     <<"0", "0", "4", "0">>, <<"0", "0", "0", "2">>, <<"1", "1", "1">>, <<"0">>,
     <<"9">>, <<"r", "w">>}

CgroupDevices ==
    {[Device(t) EXCEPT !.path = "/dev/x", !.major = ma, !.minor = mi, !.mode = mo] :
        t \in {"unix-char", "unix-block", "disk", "none"},
        ma \in MajorStrings, mi \in MinorStrings, mo \in ModeStrings}

\* deviceCgroupInfo(dev) is called and returns.
CallDeviceCgroupInfo ==
    /\ fnPc = "called"
    /\ fnArgs.fn = "deviceCgroupInfo"
    /\ fnResult' = <<deviceCgroupInfo(fnArgs.dev, fnArgs.statOk)>>
    /\ fnPc' = "returned"
    /\ UNCHANGED fnArgs
    /\ UNCHANGED <<balancerVars, deltaVars>>

(***************************************************************************)
(* deviceToLxc, lines 459-565.                                             *)
(***************************************************************************)
\* A shared.Device as deviceToLxc reads it.  The attributes of a nic are only
\* tested for emptiness and copied; the source and the path of a disk are
\* sliced and formatted, so they are character sequences.
ConfigDevice(t) ==
    [type |-> t, nictype |-> "", parent |-> "", name |-> "", hwaddr |-> "", mtu |-> "",
     source |-> <<>>, path |-> <<>>, readonly |-> "", optional |-> "",
     major |-> <<>>, minor |-> <<>>, mode |-> <<>>]

Str_bind == <<"b", "i", "n", "d">>
Str_create_dir == <<"c", "r", "e", "a", "t", "e", "=", "d", "i", "r">>
Str_create_file == <<"c", "r", "e", "a", "t", "e", "=", "f", "i", "l", "e">>
Str_ro == <<"r", "o">>
Str_optional == <<"o", "p", "t", "i", "o", "n", "a", "l">>
Str_defaults == <<"d", "e", "f", "a", "u", "l", "t", "s">>
Str_none == <<"n", "o", "n", "e">>
Path_srv_data == <<"/", "s", "r", "v", "/", "d", "a", "t", "a">>
Path_mnt == <<"/", "m", "n", "t">>
Path_mnt_relative == <<"m", "n", "t">>
Path_slash_slash_mnt == <<"/", "/", "m", "n", "t">>
Path_dev_sdb == <<"/", "d", "e", "v", "/", "s", "d", "b">>

\* strings.Join(list, ",").
RECURSIVE JoinComma(_)
JoinComma(list) ==
    IF list = <<>> THEN <<>>
    ELSE IF Len(list) = 1 THEN list[1]
    ELSE list[1] \o <<",">> \o JoinComma(Tail(list))

\* The mount directive of the helper that attaches a block device.
mountTmpBlockdev(d, ok) ==
    IF ok THEN [err |-> FALSE, line |-> <<"lxc.mount.entry", d.source>>]
    ELSE [err |-> TRUE, line |-> <<>>]

\* A destination that keeps the leading slash of the path.
MountDestKeepsSlash(path) == path

\* Lines 520-528: the mount point relative to the root of the instance.
MountDest(path) ==
    IF path = <<"/">> \/ path = <<>> THEN <<>>
    ELSE IF SubSeq(path, 1, 1) = <<"/">> THEN Tail(path)
    ELSE path

\* A nic translation that takes no nictype to have a parent.
LxcNeedsParentNever(nictype) == FALSE

\* Lines 476 and 508: the nictypes that are linked to a parent interface.
LxcNeedsParent(nictype) == nictype \in {"bridged", "physical", "macvlan"}

\* Lines 459-565.  env: what the host answers (isBlockdev: shared.IsBlockdevPath
\* of the source; isDir: shared.IsDir of the source; statOk: syscall.Stat of the
\* device path; mountOk: mountTmpBlockdev).
deviceToLxc(d, env) ==
    LET fail == [err |-> TRUE, lines |-> <<>>]
    IN  IF d.type \in {"unix-char", "unix-block"}
        THEN \* lines 450-457: unixDevCgroup
             LET devcg == deviceCgroupInfo(d, env.statOk)
             IN  IF devcg.err THEN fail
                 ELSE [err |-> FALSE, lines |-> <<<<"lxc.cgroup.devices.allow", devcg.s>>>>]
        ELSE IF d.type = "nic"
        THEN IF d.nictype = "" THEN fail
             ELSE IF d.nictype \notin {"bridged", "physical", "p2p", "macvlan"} THEN fail
             ELSE IF LxcNeedsParent(d.nictype) /\ d.parent = "" THEN fail
             ELSE [err |-> FALSE,
                   lines |->
                      (IF d.nictype \in {"bridged", "p2p"}
                       THEN <<<<"lxc.network.type", "veth">>>>
                       ELSE IF d.nictype = "physical"
                       THEN <<<<"lxc.network.type", "phys">>>>
                       ELSE IF d.nictype = "macvlan"
                       THEN <<<<"lxc.network.type", "macvlan">>,
                              <<"lxc.network.macvlan.mode", "bridge">>>>
                       ELSE <<>>)
                      \o (IF d.hwaddr # "" THEN <<<<"lxc.network.hwaddr", d.hwaddr>>>> ELSE <<>>)
                      \o (IF d.mtu # "" THEN <<<<"lxc.network.mtu", d.mtu>>>> ELSE <<>>)
                      \o (IF LxcNeedsParent(d.nictype)
                          THEN <<<<"lxc.network.link", d.parent>>>> ELSE <<>>)
                      \o (IF d.name # "" THEN <<<<"lxc.network.name", d.name>>>> ELSE <<>>)]
        ELSE IF d.type = "disk"
        THEN LET p == MountDest(d.path)
                 options == (IF env.isDir THEN <<Str_bind, Str_create_dir>>
                             ELSE <<Str_bind, Str_create_file>>)
                            \o (IF d.readonly = "1" \/ d.readonly = "true"
                                THEN <<Str_ro>> ELSE <<>>)
                            \o (IF d.optional = "1" \/ d.optional = "true"
                                THEN <<Str_optional>> ELSE <<>>)
                 opts == IF JoinComma(options) = <<>> THEN Str_defaults
                         ELSE JoinComma(options)
             IN  IF env.isBlockdev
                 THEN (IF mountTmpBlockdev(d, env.mountOk).err THEN fail
                       ELSE [err |-> FALSE,
                             lines |-> <<mountTmpBlockdev(d, env.mountOk).line>>])
                 ELSE [err |-> FALSE,
                       lines |-> <<<<"lxc.mount.entry",
                                     d.source \o <<" ">> \o p \o <<" ">> \o Str_none
                                       \o <<" ">> \o opts \o <<" ", "0", " ", "0">>>>>>]
        ELSE IF d.type = "none" THEN [err |-> FALSE, lines |-> <<>>]
        ELSE fail

\* The devices and the hosts deviceToLxc is called with.
Truthy == {"", "1", "true", "0", "yes"}

DiskDevices ==
    {[ConfigDevice("disk") EXCEPT !.source = src, !.path = p, !.readonly = ro,
                                  !.optional = opt] :
        src \in {Path_srv_data, Path_dev_sdb},
        p \in {<<>>, <<"/">>, Path_mnt, Path_mnt_relative, Path_slash_slash_mnt},
        ro \in Truthy, opt \in Truthy}

NicDevices ==
    {[ConfigDevice("nic") EXCEPT !.nictype = nt, !.parent = pa, !.name = na,
                                 !.hwaddr = hw, !.mtu = mtu] :
        nt \in {"", "bridged", "physical", "p2p", "macvlan", "bridge"},
        pa \in {"", "br0"}, na \in {"", "eth0"}, hw \in {"", ExplicitMac},
        mtu \in {"", "1500"}}

UnixDevices ==
    {[ConfigDevice(t) EXCEPT !.major = ma, !.minor = mi, !.mode = mo] :
        t \in {"unix-char", "unix-block"}, ma \in {<<>>, <<"1", "0">>},
        mi \in {<<>>, <<"2", "0", "0">>}, mo \in {<<>>, <<"0", "4", "4", "0">>, <<"9">>}}

OtherDevices == {ConfigDevice(t) : t \in {"none", "bogus", ""}}

HostAnswers ==
    {[isBlockdev |-> bd, isDir |-> dir, statOk |-> st, mountOk |-> mo] :
        bd \in BOOLEAN, dir \in BOOLEAN, st \in BOOLEAN, mo \in BOOLEAN}

\* What the host can answer for a device: only a disk has a source to classify
\* (a block device is not a directory), only a unix device has a node to stat.
HostAnswersOf(d) ==
    {env \in HostAnswers :
        /\ (d.type # "disk" => ~env.isBlockdev /\ ~env.isDir)
        /\ (env.isBlockdev => ~env.isDir)
        /\ (~env.isBlockdev => env.mountOk)
        /\ (d.type \notin {"unix-char", "unix-block"} \/ d.major # <<>> \/ d.minor # <<>>
              => env.statOk)}

\* deviceToLxc(cntPath, d) is called and returns.
CallDeviceToLxc ==
    /\ fnPc = "called"
    /\ fnArgs.fn = "deviceToLxc"
    /\ fnResult' = <<deviceToLxc(fnArgs.d, fnArgs.env)>>
    /\ fnPc' = "returned"
    /\ UNCHANGED fnArgs
    /\ UNCHANGED <<balancerVars, deltaVars>>

(***************************************************************************)
(* Specifications.                                                         *)
(***************************************************************************)
PassInit ==
    /\ cpus = <<>>
    /\ fixedContainers = EmptyMap
    /\ balancedContainers = EmptyMap
    /\ pinning = NoPinning
    /\ usage = <<>>
    /\ fixedDone = {}
    /\ allocated = {}
    /\ alloc = <<>>
    /\ writes = NoPinning

\* Instances of the whole-daemon specification.
DaemonConfigValues ==
    {[ok |-> FALSE, val |-> <<>>], [ok |-> TRUE, val |-> <<"2", ",", "1", "0">>]}

\* The daemon starts deviceTaskScheduler as a goroutine.
Init ==
    /\ host \in HostStates
    /\ conf \in [Containers -> DaemonConfigValues]
    /\ running = [c \in Containers |-> TRUE]
    /\ cpuset = NoPinning
    /\ schedPc = "start"
    /\ inBalance = 0
    /\ passes = 0
    /\ hotplugs = 0
    /\ received = 0
    /\ dropped = 0
    /\ monitorPc = "none"
    /\ hotplugMsg = <<>>
    /\ monitorBuf = <<>>
    /\ sock = <<>>
    /\ deviceSchedRebalance = <<>>
    /\ sender = [s \in Senders |-> <<>>]
    /\ bpc = "idle"
    /\ PassInit
    /\ DeltaIdle
    /\ FnIdle

Balance ==
    \/ BalanceReadDirFails
    \/ BalanceClassify
    \/ \E cpu \in CpuIds : ApplyFixed(cpu)
    \/ \E ctn \in Containers : Allocate(ctn)
    \/ \E ctn \in Containers, ok \in BOOLEAN : SetPinning(ctn, ok)

Next ==
    \/ \E ok \in BOOLEAN : SchedSetupMonitor(ok)
    \/ SchedInitialBalance
    \/ SchedRecvHotplug
    \/ SchedRecvRebalance
    \/ BalanceReturn
    \/ Balance
    \/ \E id \in CpuIds : Hotplug(id)
    \/ MonitorRead
    \/ \E s \in Senders, n \in 2..MaxArity : SenderBegin(s, n)
    \/ \E s \in Senders : SenderDeliver(s)

Spec == Init /\ [][Next]_vars

\* The instances of the single-pass specification: a running instance has any
\* of the modelled limits, a stopped one has no limit or a pinning expression.
InstanceStates ==
    {[running |-> TRUE, conf |-> cf] : cf \in ConfigValues}
    \cup {[running |-> FALSE, conf |-> cf] : cf \in DaemonConfigValues}

\* One pass of deviceTaskBalance, called on any host and any set of instances.
BalanceInit ==
    /\ host \in HostStates
    /\ \E inst \in [Containers -> InstanceStates] :
           /\ conf = [c \in Containers |-> inst[c].conf]
           /\ running = [c \in Containers |-> inst[c].running]
    /\ cpuset = NoPinning
    /\ schedPc = "initial"
    /\ inBalance = 0
    /\ passes = 0
    /\ hotplugs = 0
    /\ received = 0
    /\ dropped = 0
    /\ monitorPc = "read"
    /\ hotplugMsg = <<>>
    /\ monitorBuf = <<>>
    /\ sock = <<>>
    /\ deviceSchedRebalance = <<>>
    /\ sender = [s \in Senders |-> <<>>]
    /\ bpc = "idle"
    /\ PassInit
    /\ DeltaIdle
    /\ FnIdle

BalanceNext ==
    \/ SchedInitialBalance
    \/ Balance

BalanceSpec == BalanceInit /\ [][BalanceNext]_vars

\* The daemon after a successful monitor setup, on a host whose CPUs stay as
\* they are: passes are started by the startup call and by explicit requests.
RepeatNext ==
    \/ SchedInitialBalance
    \/ Balance
    \/ BalanceReturn
    \/ \E s \in Senders : SenderBegin(s, 3)
    \/ \E s \in Senders : SenderDeliver(s)
    \/ SchedRecvRebalance

RepeatSpec == BalanceInit /\ [][RepeatNext]_vars

\* The scheduler and the balancer before the daemon starts them.
BalancerIdle ==
    /\ host = [id \in CpuIds |-> IF id \in NonHotplug THEN "nofile" ELSE "1"]
    /\ conf = [c \in Containers |-> [ok |-> FALSE, val |-> <<>>]]
    /\ running = [c \in Containers |-> TRUE]
    /\ cpuset = NoPinning
    /\ schedPc = "start"
    /\ inBalance = 0
    /\ passes = 0
    /\ hotplugs = 0
    /\ received = 0
    /\ dropped = 0
    /\ monitorPc = "none"
    /\ hotplugMsg = <<>>
    /\ monitorBuf = <<>>
    /\ sock = <<>>
    /\ deviceSchedRebalance = <<>>
    /\ sender = [s \in Senders |-> <<>>]
    /\ bpc = "idle"
    /\ PassInit

\* A running instance with its current devices in place: the interfaces of
\* its named nics are inside it, its disks and device nodes are mounted, an
\* address is persisted for each nic that was set up without an explicit one.
InstalledDevices ==
    /\ preDevList \in InstalledSets
    /\ dpc = "idle"
    /\ postDevList = EmptyMap
    /\ rmList = EmptyMap
    /\ addList = EmptyMap
    /\ rmLeft = {}
    /\ addLeft = {}
    /\ derr = NoError
    /\ links = {Name_br0, Name_eth1}
                 \ {preDevList[k].parent : k \in {n \in DOMAIN preDevList :
                        preDevList[n].type = "nic" /\ preDevList[n].nictype = "physical"}}
    /\ bridgeMembers = {}
    /\ ctnIfaces = {preDevList[k].name : k \in {n \in DOMAIN preDevList :
                        preDevList[n].type = "nic" /\ preDevList[n].name # <<>>}}
    /\ mounts = {preDevList[k].path : k \in {n \in DOMAIN preDevList :
                        preDevList[n].type \in {"disk", "unix-char", "unix-block"}}}
    /\ hwaddrStore = [k \in DeviceNames |->
                        IF /\ k \in DOMAIN preDevList
                           /\ preDevList[k].type = "nic"
                           /\ NicCheck(preDevList[k]) = "nil"
                           /\ preDevList[k].hwaddr = ""
                        THEN StoredMac ELSE ""]
    /\ nameStore = [k \in DeviceNames |->
                        IF k \in DOMAIN preDevList /\ preDevList[k].type = "nic"
                        THEN preDevList[k].name ELSE <<>>]
    /\ ops = <<>>

DeltaInit ==
    /\ InstalledDevices
    /\ BalancerIdle
    /\ FnIdle

DeltaNext ==
    \/ \E postDevs \in DeviceSets : ApplyDeltaLive(postDevs)
    \/ \E key \in DeviceNames, outcome \in RemoveOutcomes : RemoveDevice(key, outcome)
    \/ \E key \in DeviceNames, outcome \in AddOutcomes, listOk \in BOOLEAN :
           AddDevice(key, outcome, listOk)

DeltaSpec == DeltaInit /\ [][DeltaNext]_vars

\* The instance whose devices are changed is one of the instances the
\* balancer pins.
DeltaInstance == 1

\* The device nodes of the model.
UnixValues == {d \in DeviceValues : d.type \in {"unix-char", "unix-block", "none"}}

\* A pass of deviceTaskBalance over running instances while the devices of
\* one of them are changed: devicesApplyDeltaLive runs in the thread of the
\* configuration update, not in the scheduler's.
ConcurrentInit ==
    /\ host = [id \in CpuIds |-> IF id \in NonHotplug THEN "nofile" ELSE "1"]
    /\ conf \in [Containers -> DaemonConfigValues]
    /\ running = [c \in Containers |-> TRUE]
    /\ cpuset = NoPinning
    /\ schedPc = "initial"
    /\ inBalance = 0
    /\ passes = 0
    /\ hotplugs = 0
    /\ received = 0
    /\ dropped = 0
    /\ monitorPc = "read"
    /\ hotplugMsg = <<>>
    /\ monitorBuf = <<>>
    /\ sock = <<>>
    /\ deviceSchedRebalance = <<>>
    /\ sender = [s \in Senders |-> <<>>]
    /\ bpc = "idle"
    /\ PassInit
    /\ InstalledDevices
    /\ \A k \in DOMAIN preDevList : preDevList[k] \in UnixValues
    /\ FnIdle

ConcurrentNext ==
    \/ SchedInitialBalance
    \/ Balance
    \/ \E postDevs \in UNION {[S -> UnixValues] : S \in SUBSET DeviceNames} :
           ApplyDeltaLive(postDevs)
    \/ \E key \in DeviceNames, outcome \in RemoveOutcomes : RemoveDevice(key, outcome)
    \/ \E key \in DeviceNames, outcome \in AddOutcomes, listOk \in BOOLEAN :
           AddDevice(key, outcome, listOk)

ConcurrentSpec == ConcurrentInit /\ [][ConcurrentNext]_vars

\* Well-formed notifications produced so far: received, or waiting in a
\* sender, in the slot of deviceSchedRebalance, in the monitor's send or in
\* the socket.
WellFormedProduced ==
    received + Cardinality({s \in Senders : Len(sender[s]) = 3})
    + Len(SelectSeq(deviceSchedRebalance, LAMBDA e : Len(e) = 3))
    + (IF monitorPc = "send" THEN 1 ELSE 0) + Len(sock)

\* Requests of a wrong arity produced so far.
WrongArityProduced ==
    dropped + Cardinality({s \in Senders : sender[s] # <<>> /\ Len(sender[s]) # 3})
    + Len(SelectSeq(deviceSchedRebalance, LAMBDA e : Len(e) # 3))

\* The daemon with its scheduler loop running (the monitor was set up) over
\* running instances on a host with all CPUs online.
LiveInit ==
    /\ host = [id \in CpuIds |-> IF id \in NonHotplug THEN "nofile" ELSE "1"]
    /\ conf \in [Containers -> DaemonConfigValues]
    /\ running = [c \in Containers |-> TRUE]
    /\ cpuset = NoPinning
    /\ schedPc = "initial"
    /\ inBalance = 0
    /\ passes = 0
    /\ hotplugs = 0
    /\ received = 0
    /\ dropped = 0
    /\ monitorPc = "read"
    /\ hotplugMsg = <<>>
    /\ monitorBuf = <<>>
    /\ sock = <<>>
    /\ deviceSchedRebalance = <<>>
    /\ sender = [s \in Senders |-> <<>>]
    /\ bpc = "idle"
    /\ PassInit
    /\ DeltaIdle
    /\ FnIdle

\* The producers stop before the bounds of the receiving steps are reached:
\* no notification waits because of MaxPasses or MaxDropped.
LiveHotplug(id) == WellFormedProduced < MaxPasses - 1 /\ Hotplug(id)

LiveSenderBegin(s, n) ==
    /\ IF n = 3 THEN WellFormedProduced < MaxPasses - 1
                ELSE WrongArityProduced < MaxDropped
    /\ SenderBegin(s, n)

LiveNext ==
    \/ SchedInitialBalance
    \/ SchedRecvHotplug
    \/ SchedRecvRebalance
    \/ BalanceReturn
    \/ Balance
    \/ \E id \in CpuIds : LiveHotplug(id)
    \/ MonitorRead
    \/ \E s \in Senders, n \in 2..MaxArity : LiveSenderBegin(s, n)
    \/ \E s \in Senders : SenderDeliver(s)

\* The goroutines of the scheduler and of the monitor take their next step
\* when they can (weak fairness); a select takes a case that is ready again
\* and again (Go chooses among the ready cases at random), and a sender
\* blocked on the full channel is served in turn (strong fairness).  The
\* kernel and the senders are not obliged to produce anything.
LiveFairness ==
    /\ WF_vars(SchedInitialBalance)
    /\ WF_vars(Balance)
    /\ WF_vars(BalanceReturn)
    /\ WF_vars(MonitorRead)
    /\ SF_vars(SchedRecvHotplug)
    /\ SF_vars(SchedRecvRebalance)
    /\ \A s \in Senders : SF_vars(SenderDeliver(s))

LiveSpec == LiveInit /\ [][LiveNext]_vars /\ LiveFairness

\* The monitor and the scheduler on a host whose instances are stopped: the
\* kernel emits the uevents of CPUs and of other devices.
MonitorInit ==
    /\ host = [id \in CpuIds |-> IF id \in NonHotplug THEN "nofile" ELSE "1"]
    /\ conf = [c \in Containers |-> [ok |-> FALSE, val |-> <<>>]]
    /\ running = [c \in Containers |-> FALSE]
    /\ cpuset = NoPinning
    /\ schedPc = "initial"
    /\ inBalance = 0
    /\ passes = 0
    /\ hotplugs = 0
    /\ received = 0
    /\ dropped = 0
    /\ monitorPc = "read"
    /\ hotplugMsg = <<>>
    /\ monitorBuf = <<>>
    /\ sock = <<>>
    /\ deviceSchedRebalance = <<>>
    /\ sender = [s \in Senders |-> <<>>]
    /\ bpc = "idle"
    /\ PassInit
    /\ DeltaIdle
    /\ FnIdle

MonitorNext ==
    \/ SchedInitialBalance
    \/ SchedRecvHotplug
    \/ BalanceReadDirFails
    \/ BalanceClassify
    \/ BalanceReturn
    \/ \E id \in CpuIds : Hotplug(id)
    \/ \E e \in OtherEvents : OtherUevent(e)
    \/ MonitorRead

MonitorSpec == MonitorInit /\ [][MonitorNext]_vars

(***************************************************************************)
(* ConfigKeyChecker, lines 998-2040.  A configuration key is the sequence  *)
(* of its dot-separated components: "user.foo" is <<"user", "foo">> and    *)
(* "limits.kernel." is <<"limits", "kernel", "">>.                         *)
(***************************************************************************)
\* strings.HasPrefix(key, p) for a prefix p that ends with a dot; pre: the
\* components of p before that dot.
HasPrefix(key, pre) == Len(key) > Len(pre) /\ SubSeq(key, 1, Len(pre)) = pre

\* strings.HasSuffix(key, s) for a suffix s that starts with a dot; suf: the
\* components of s after that dot.
HasSuffix(key, suf) ==
    Len(key) > Len(suf) /\ SubSeq(key, Len(key) - Len(suf) + 1, Len(key)) = suf

\* Line 990.
ConfigVolatilePrefix == <<"volatile">>

\* Lines 999-1288: the keys of the table for every instance type.
InstanceConfigKeysAny ==
    { <<"boot", "autostart">>, <<"boot", "autostart", "delay">>, <<"boot", "autostart",
      "priority">>, <<"boot", "stop", "priority">>, <<"boot", "host_shutdown_timeout">>,
      <<"cloud-init", "network-config">>, <<"cloud-init", "user-data">>, <<"cloud-init",
      "vendor-data">>, <<"cluster", "evacuate">>, <<"limits", "cpu">>, <<"limits", "cpu",
      "nodes">>, <<"limits", "disk", "priority">>, <<"limits", "memory">>, <<"limits",
      "network", "priority">>, <<"raw", "apparmor">>, <<"raw", "idmap">>, <<"security",
      "guestapi">>, <<"security", "protection", "delete">>, <<"snapshots", "schedule">>,
      <<"snapshots", "schedule", "stopped">>, <<"snapshots", "pattern">>, <<"snapshots",
      "expiry">>, <<"volatile", "apply_template">>, <<"volatile", "base_image">>,
      <<"volatile", "cloud-init", "instance-id">>, <<"volatile", "evacuate", "origin">>,
      <<"volatile", "last_state", "power">>, <<"volatile", "last_state", "ready">>,
      <<"volatile", "apply_quota">>, <<"volatile", "uuid">>, <<"volatile", "uuid",
      "generation">> }

\* Lines 1291-1724: the keys of the table for containers.
InstanceConfigKeysContainer ==
    { <<"limits", "cpu", "allowance">>, <<"limits", "cpu", "priority">>, <<"limits",
      "hugepages", "64KB">>, <<"limits", "hugepages", "1MB">>, <<"limits", "hugepages",
      "2MB">>, <<"limits", "hugepages", "1GB">>, <<"limits", "memory", "enforce">>,
      <<"limits", "memory", "swap">>, <<"limits", "memory", "swap", "priority">>,
      <<"limits", "processes">>, <<"linux", "kernel_modules">>, <<"migration",
      "incremental", "memory">>, <<"migration", "incremental", "memory", "iterations">>,
      <<"migration", "incremental", "memory", "goal">>, <<"nvidia", "runtime">>,
      <<"nvidia", "driver", "capabilities">>, <<"nvidia", "require", "cuda">>, <<"nvidia",
      "require", "driver">>, <<"raw", "lxc">>, <<"raw", "seccomp">>, <<"security",
      "guestapi", "images">>, <<"security", "idmap", "base">>, <<"security", "idmap",
      "isolated">>, <<"security", "idmap", "size">>, <<"security", "nesting">>,
      <<"security", "privileged">>, <<"security", "protection", "shift">>, <<"security",
      "syscalls", "allow">>, <<"security", "syscalls", "blacklist_default">>,
      <<"security", "syscalls", "blacklist_compat">>, <<"security", "syscalls",
      "blacklist">>, <<"security", "syscalls", "deny_default">>, <<"security", "syscalls",
      "deny_compat">>, <<"security", "syscalls", "deny">>, <<"security", "syscalls",
      "intercept", "bpf">>, <<"security", "syscalls", "intercept", "bpf", "devices">>,
      <<"security", "syscalls", "intercept", "mknod">>, <<"security", "syscalls",
      "intercept", "mount">>, <<"security", "syscalls", "intercept", "mount", "allowed">>,
      <<"security", "syscalls", "intercept", "mount", "fuse">>, <<"security", "syscalls",
      "intercept", "mount", "shift">>, <<"security", "syscalls", "intercept",
      "sched_setscheduler">>, <<"security", "syscalls", "intercept", "setxattr">>,
      <<"security", "syscalls", "intercept", "sysinfo">>, <<"security", "syscalls",
      "whitelist">>, <<"volatile", "last_state", "idmap">>, <<"volatile", "idmap",
      "base">>, <<"volatile", "idmap", "current">>, <<"volatile", "idmap", "next">> }

\* Lines 1727-1860: the keys of the table for virtual machines.
InstanceConfigKeysVM ==
    { <<"limits", "memory", "hugepages">>, <<"migration", "stateful">>, <<"raw", "qemu">>,
      <<"raw", "qemu", "conf">>, <<"security", "agent", "metrics">>, <<"security",
      "csm">>, <<"security", "secureboot">>, <<"security", "sev">>, <<"security", "sev",
      "policy", "es">>, <<"security", "sev", "session", "dh">>, <<"security", "sev",
      "session", "data">>, <<"agent", "nic_config">>, <<"volatile", "apply_nvram">>,
      <<"volatile", "vsock_id">> }

\* The values of api.InstanceType.
InstanceTypeAny == ""
InstanceTypeContainer == "container"
InstanceTypeVM == "virtual-machine"
InstanceTypes == {InstanceTypeAny, InstanceTypeContainer, InstanceTypeVM}

\* Lines 1906-2010: the suffixes of volatile keys that map to validate.IsAny.
VolatileIsAnySuffixes ==
    { <<"hwaddr">>, <<"name">>, <<"host_name">>, <<"mtu">>, <<"created">>, <<"id">>,
      <<"vlan">>, <<"spoofcheck">>, <<"last_state", "vf", "parent">>, <<"apply_quota">>,
      <<"ceph_rbd">>, <<"driver">>, <<"uuid">> }

\* Lines 1888-2014: the validator of a volatile key that is in no table.
VolatileValidator(key) ==
    IF \E suf \in VolatileIsAnySuffixes : HasSuffix(key, suf) THEN "IsAny"
    ELSE IF HasSuffix(key, <<"last_state", "ip_addresses">>) THEN "IsListOf"
    ELSE IF HasSuffix(key, <<"last_state", "ready">>) THEN "IsBool"
    ELSE "nil"

\* A checker that looks the key up in every table, whatever the instance type.
ConfigKeyCheckerUnscoped(key, instanceType) ==
    IF key \in InstanceConfigKeysAny THEN [f |-> "Any", err |-> FALSE]
    ELSE IF key \in InstanceConfigKeysContainer THEN [f |-> "Container", err |-> FALSE]
    ELSE IF key \in InstanceConfigKeysVM THEN [f |-> "VM", err |-> FALSE]
    ELSE IF HasPrefix(key, ConfigVolatilePrefix) /\ VolatileValidator(key) # "nil"
    THEN [f |-> VolatileValidator(key), err |-> FALSE]
    ELSE IF \/ HasPrefix(key, <<"environment">>)
            \/ HasPrefix(key, <<"user">>)
            \/ HasPrefix(key, <<"image">>)
            \/ HasPrefix(key, <<"limits", "kernel">>) /\ (Len(key) > 3 \/ key[3] # "")
            \/ HasPrefix(key, <<"linux", "sysctl">>)
    THEN [f |-> "IsAny", err |-> FALSE]
    ELSE [f |-> "nil", err |-> TRUE]

\* Lines 1868-2040.  f: the validator returned (the table whose entry it is,
\* or the name of the function of package validate); err: "Unknown
\* configuration key".
ConfigKeyChecker(key, instanceType) ==
    IF key \in InstanceConfigKeysAny THEN [f |-> "Any", err |-> FALSE]
    ELSE IF /\ instanceType \in {InstanceTypeAny, InstanceTypeContainer}
            /\ key \in InstanceConfigKeysContainer
    THEN [f |-> "Container", err |-> FALSE]
    ELSE IF /\ instanceType \in {InstanceTypeAny, InstanceTypeVM}
            /\ key \in InstanceConfigKeysVM
    THEN [f |-> "VM", err |-> FALSE]
    ELSE IF HasPrefix(key, ConfigVolatilePrefix) /\ VolatileValidator(key) # "nil"
    THEN [f |-> VolatileValidator(key), err |-> FALSE]
    ELSE IF \/ HasPrefix(key, <<"environment">>)
            \/ HasPrefix(key, <<"user">>)
            \/ HasPrefix(key, <<"image">>)
            \/ HasPrefix(key, <<"limits", "kernel">>) /\ (Len(key) > 3 \/ key[3] # "")
            \/ /\ instanceType \in {InstanceTypeAny, InstanceTypeContainer}
               /\ HasPrefix(key, <<"linux", "sysctl">>)
    THEN [f |-> "IsAny", err |-> FALSE]
    ELSE [f |-> "nil", err |-> TRUE]

\* The keys ConfigKeyChecker is called with: every key of the three tables
\* and keys that are in none.
CheckedKeys ==
    InstanceConfigKeysAny \cup InstanceConfigKeysContainer \cup InstanceConfigKeysVM
    \cup { <<"user", "foo">>, <<"user", "">>, <<"user">>, <<"environment", "PATH">>,
           <<"image", "os">>, <<"limits", "kernel", "nofile">>, <<"limits", "kernel", "">>,
           <<"linux", "sysctl", "net", "ipv4", "ip_forward">>, <<"linux", "sysctl">>,
           <<"volatile", "eth0", "hwaddr">>, <<"volatile", "eth0", "last_state", "ready">>,
           <<"volatile", "eth0", "last_state", "ip_addresses">>,
           <<"volatile", "eth0", "bogus">>, <<"security", "bogus">>, <<"">> }

\* ConfigKeyChecker(key, instanceType) is called and returns.
CallConfigKeyChecker ==
    /\ fnPc = "called"
    /\ fnArgs.fn = "ConfigKeyChecker"
    /\ fnResult' = <<ConfigKeyChecker(fnArgs.key, fnArgs.instanceType)>>
    /\ fnPc' = "returned"
    /\ UNCHANGED fnArgs
    /\ UNCHANGED <<balancerVars, deltaVars>>

(***************************************************************************)
(* devGetOptions, lines 321-348.                                           *)
(***************************************************************************)
Str_uid_eq == <<"u", "i", "d", "=">>
Str_gid_eq == <<"g", "i", "d", "=">>
Str_mode_eq == <<"m", "o", "d", "e", "=">>
Str_0660 == <<"0", "6", "6", "0">>

\* Line 343: fmt.Sprintf("mode=%0d", m).  The flag 0 asks for padding with
\* zeros, and without a width nothing is padded: the verb prints m in decimal.
ModeOption(m) == Str_mode_eq \o Sprintf_d(m)

\* Lines 321-348.  s: the option string; err: an attribute does not parse.
devGetOptions(d) ==
    LET u == Atoi(d.uid)
        g == Atoi(d.gid)
        m == devModeOct(d.mode)
        failed == [s |-> <<>>, err |-> TRUE]
    IN  IF d.uid # <<>> /\ u.err THEN failed
        ELSE IF d.gid # <<>> /\ g.err THEN failed
        ELSE IF d.mode # <<>> /\ m.err THEN failed
        ELSE [s |-> JoinComma(<<Str_bind, Str_create_file>>
                        \o (IF d.uid # <<>> THEN <<Str_uid_eq \o Sprintf_d(u.n)>> ELSE <<>>)
                        \o (IF d.gid # <<>> THEN <<Str_gid_eq \o Sprintf_d(g.n)>> ELSE <<>>)
                        \o (IF d.mode # <<>> THEN <<ModeOption(m.n)>>
                            ELSE <<Str_mode_eq \o Str_0660>>)),
              err |-> FALSE]

\* The attribute values devGetOptions is called with.
IdStrings == {<<>>, <<"0">>, <<"1", "0", "0", "0">>, <<"x">>}
OptionModeStrings ==
    { <<>>, Str_0660, <<"6", "6", "0">>, <<"0">>, <<"7">>, <<"0", "4", "4", "4">>,
      <<"7", "7", "7">>, <<"9">>, <<"+", "7">>, <<"r", "w">> }
OptionDevices ==
    {[uid |-> u, gid |-> g, mode |-> mo] :
        u \in IdStrings, g \in IdStrings, mo \in OptionModeStrings}

\* devGetOptions(d) is called and returns.
CallDevGetOptions ==
    /\ fnPc = "called"
    /\ fnArgs.fn = "devGetOptions"
    /\ fnResult' = <<devGetOptions(fnArgs.d)>>
    /\ fnPc' = "returned"
    /\ UNCHANGED fnArgs
    /\ UNCHANGED <<balancerVars, deltaVars>>

\* Calls of the pure functions of the file.
FnInit ==
    /\ fnPc = "called"
    /\ fnArgs \in {[fn |-> "validDeviceConfig", t |-> t, k |-> k, v |-> v] :
                      t \in TypeNames, k \in KeyNames, v \in ValueStrings}
                  \cup {[fn |-> "dbDeviceTypeToString", n |-> n] : n \in DbTypes}
                  \cup {[fn |-> "deviceTypeToDbType", t |-> t] : t \in CodecNames}
                  \cup {[fn |-> "deviceCgroupInfo", dev |-> dev, statOk |-> ok] :
                           dev \in CgroupDevices, ok \in BOOLEAN}
                  \cup {[fn |-> "deviceToLxc", d |-> da[1], env |-> da[2]] :
                           da \in {x \in (DiskDevices \cup NicDevices \cup UnixDevices
                                            \cup OtherDevices) \X HostAnswers :
                                      x[2] \in HostAnswersOf(x[1])}}
                  \cup {[fn |-> "ConfigKeyChecker", key |-> k, instanceType |-> t] :
                           k \in CheckedKeys, t \in InstanceTypes}
                  \cup {[fn |-> "devGetOptions", d |-> d] : d \in OptionDevices}
    /\ fnResult = <<>>
    /\ BalancerIdle
    /\ DeltaIdle

FnNext ==
    \/ CallValidDeviceConfig
    \/ CallDbDeviceTypeToString
    \/ CallDeviceTypeToDbType
    \/ CallDeviceCgroupInfo
    \/ CallDeviceToLxc
    \/ CallConfigKeyChecker
    \/ CallDevGetOptions

FnSpec == FnInit /\ [][FnNext]_vars

(***************************************************************************)
(* Vocabulary of the properties.                                           *)
(***************************************************************************)
Elems(seq) == {seq[k] : k \in 1..Len(seq)}

\* The CPUs that are online on the host.
OnlineIds == {id \in CpuIds : host[id] # "0"}

\* The pass has enumerated N >= 1 online CPUs and classified the containers.
Classified == bpc \in {"fixed", "balance", "write", "return"} /\ Len(cpus) >= 1

\* The pass ran to its end (all three loops are over).
PassDone == bpc = "return" /\ Len(cpus) >= 1

RunningBalanced == {c \in Containers : running[c] /\ IsBalanced(conf[c], cpus)}
RunningPinned == {c \in Containers : running[c] /\ ~IsBalanced(conf[c], cpus)}
OnlyBalanced == \A c \in Containers : running[c] => IsBalanced(conf[c], cpus)

\* The count a load-balanced container asks for.
Requested(c) == Atoi(EffectiveLimit(conf[c], Len(cpus))).n

\* The CPU ids of a list of id strings, and of a written cpuset.cpus value.
IdsOf(list) == {Atoi(list[k]).n : k \in 1..Len(list)}
WrittenIds(value) == IdsOf(Split(value, ","))

\* The CPU ids of the host that a pinning expression references.
Referenced(expr) == Elems(PinnedIds(expr, SetToSeq(CpuIds)))

\* The usage count of CPU id in a usage list.
CountOf(u, id) == (CHOOSE e \in Elems(u) : e.id = id).count

PickedIds(a) == {a.picks[k].id : k \in 1..Len(a.picks)}

RECURSIVE SumCounts(_)
SumCounts(u) == IF u = <<>> THEN 0 ELSE Head(u).count + SumCounts(Tail(u))

\* The number of pins the running instances place on online CPUs.
TotalPins == Len(FixedAppends(1, conf, running, cpus))

(***************************************************************************)
(* C1: at most one execution of deviceTaskBalance is in progress at any    *)
(* time; while one is, the scheduler loop is inside the call and receives  *)
(* nothing.                                                                *)
(***************************************************************************)
C1_AtMostOnePass ==
    /\ inBalance <= 1
    /\ (bpc \in {"enter", "fixed", "balance", "write", "return"} => inBalance = 1)
    /\ (inBalance = 1 => schedPc = "balancing")

\* A later pass is running while both producers have a notification waiting.
C1_Witness ==
    /\ inBalance = 1
    /\ passes >= 2
    /\ bpc = "write"
    /\ monitorPc = "send"
    /\ deviceSchedRebalance # <<>>

(***************************************************************************)
(* C2: when the monitor's socket cannot be set up, explicit requests are   *)
(* still served: no well-formed request sits in deviceSchedRebalance, and  *)
(* no sender waits on the full channel, once the scheduler loop is gone.   *)
(***************************************************************************)
C2_ExplicitRequestsServed ==
    schedPc = "returned" =>
        /\ \A k \in 1..Len(deviceSchedRebalance) : Len(deviceSchedRebalance[k]) # 3
        /\ \A s \in Senders :
               ~(sender[s] # <<>> /\ Len(deviceSchedRebalance) = RebalanceCap)

(***************************************************************************)
(* C3: the CPU ids written to a pinned instance's cpuset.cpus are exactly  *)
(* the ids its expression references that are online, and a pass that ran  *)
(* to its end has written them when there are any.                         *)
(***************************************************************************)
C3_PinnedWriteIsReferencedOnline ==
    \A c \in Containers :
        (running[c] /\ conf[c].ok /\ ~IsBalanced(conf[c], cpus)) =>
            LET want == Referenced(conf[c].val) \cap OnlineIds
            IN  /\ \A k \in 1..Len(writes[c]) : WrittenIds(writes[c][k]) = want
                /\ (PassDone /\ want # {} => writes[c] # <<>>)

(***************************************************************************)
(* C4: a balancer pass never aborts abnormally (no out-of-range access     *)
(* into the usage list).                                                   *)
(***************************************************************************)
C4_NoAbnormalAbort == bpc # "panic"

(***************************************************************************)
(* C5 as stated: with N >= 1 online CPUs and only load-balanced running    *)
(* instances, a finished pass has given each of them exactly               *)
(* min(requested, N) pairwise distinct online CPUs.                        *)
(***************************************************************************)
C5_BalancedGetMinRequested ==
    (PassDone /\ OnlyBalanced) =>
        \A c \in Containers : running[c] =>
            /\ Len(pinning[c]) = min(Requested(c), Len(cpus))
            /\ Cardinality(IdsOf(pinning[c])) = Len(pinning[c])
            /\ IdsOf(pinning[c]) \subseteq OnlineIds

(***************************************************************************)
(* C5 as amended: the same for every instance whose requested count is     *)
(* >= 0 (an unset or empty limit requests N); an instance whose limit is a *)
(* negative integer is given all N online CPUs.                            *)
(***************************************************************************)
C5_BalancedGetMinRequestedOrAll ==
    (PassDone /\ OnlyBalanced) =>
        \A c \in Containers : running[c] =>
            /\ Len(pinning[c]) = IF Requested(c) < 0 THEN Len(cpus)
                                 ELSE min(Requested(c), Len(cpus))
            /\ Cardinality(IdsOf(pinning[c])) = Len(pinning[c])
            /\ IdsOf(pinning[c]) \subseteq OnlineIds
            /\ (~conf[c].ok \/ conf[c].val = <<>> => IdsOf(pinning[c]) = OnlineIds)

\* A finished pass over an instance capped at N, one with an unset limit and
\* nothing else running.
C5_Witness ==
    /\ PassDone /\ OnlyBalanced
    /\ \E c \in Containers :
           running[c] /\ conf[c].ok /\ Requested(c) > Len(cpus)
           /\ Len(pinning[c]) = Len(cpus)
    /\ \E c \in Containers : running[c] /\ ~conf[c].ok /\ Len(pinning[c]) = Len(cpus)

(***************************************************************************)
(* C6: with only load-balanced running instances, after every allocation   *)
(* of a pass the usage counts of any two online CPUs differ by at most 1.  *)
(***************************************************************************)
C6_UsageWithinOne ==
    (Classified /\ OnlyBalanced) =>
        \A i, j \in 1..Len(usage) : usage[i].count - usage[j].count <= 1

\* Two instances have been allocated and the counts are uneven.
C6_Witness ==
    /\ Classified /\ OnlyBalanced
    /\ Len(alloc) >= 2
    /\ \E i, j \in 1..Len(usage) : usage[i].count = 2 /\ usage[j].count = 1

(***************************************************************************)
(* C7: every fixed pin is on the usage counters before the first           *)
(* load-balanced allocation; each allocation gives CPUs whose count is <=  *)
(* that of every CPU it does not give; and on CPUs 0-3 with an instance    *)
(* pinned 0-1 and an instance asking for 2, the values written are "0,1"   *)
(* and "2,3".                                                              *)
(***************************************************************************)
ScenarioC7(a, b) ==
    /\ a # b
    /\ OnlineIds = 0..3
    /\ \A c \in Containers : running[c] <=> c \in {a, b}
    /\ conf[a] = [ok |-> TRUE, val |-> <<"0", "-", "1">>]
    /\ conf[b] = [ok |-> TRUE, val |-> <<"2">>]

C7_FixedFirstThenLeastLoaded ==
    /\ alloc # <<>> =>
           /\ FixedLeft = {}
           /\ SumCounts(alloc[1].before) = TotalPins
    /\ \A k \in 1..Len(alloc) :
           \A p \in PickedIds(alloc[k]) :
               \A q \in Elems(cpus) \ PickedIds(alloc[k]) :
                   CountOf(alloc[k].before, p) <= CountOf(alloc[k].before, q)
    /\ \A a, b \in Containers :
           (PassDone /\ ScenarioC7(a, b)) =>
               /\ writes[a] = << <<"0", ",", "1">> >>
               /\ writes[b] = << <<"2", ",", "3">> >>

\* The scenario's pass has finished, the pin was counted before the allocation.
C7_Witness ==
    \E a, b \in Containers :
        /\ PassDone /\ ScenarioC7(a, b)
        /\ Len(alloc) = 1
        /\ CountOf(alloc[1].before, 0) = 1
        /\ writes[b] = << <<"2", ",", "3">> >>

(***************************************************************************)
(* C8: when several running instances pin the same online CPU, each of     *)
(* them is assigned that CPU, and after the fixed phase that CPU's usage   *)
(* count is the number of pins placed on it.                               *)
(***************************************************************************)
C8_SharedPinsHonoured ==
    (Classified /\ FixedLeft = {} /\ alloc = <<>>) =>
        \A id \in DOMAIN fixedContainers :
            Cardinality(Elems(fixedContainers[id])) >= 2 =>
                /\ \A c \in Elems(fixedContainers[id]) : id \in IdsOf(pinning[c])
                /\ CountOf(usage, id) = Len(fixedContainers[id])

RECURSIVE AscendingIds(_)
AscendingIds(list) ==
    IF list = <<>> THEN <<>>
    ELSE LET at == CHOOSE i \in 1..Len(list) :
                       \A j \in 1..Len(list) : Atoi(list[i]).n <= Atoi(list[j]).n
         IN  <<Sprintf_d(Atoi(list[at]).n)>>
             \o AscendingIds(SubSeq(list, 1, at - 1) \o SubSeq(list, at + 1, Len(list)))

C10_WrittenAscendingNumeric ==
    \A c \in Containers :
        \A k \in 1..Len(writes[c]) :
            writes[c][k] = Join(AscendingIds(pinning[c]))

(***************************************************************************)
(* C12: when monitor setup succeeds the scheduler starts one pass before   *)
(* receiving anything, and after k well-formed notifications have been     *)
(* received exactly 1 + k passes have been started; a notification is      *)
(* received only when no pass is in progress.                              *)
(***************************************************************************)
C12_OnePassPerNotification ==
    /\ schedPc = "initial" => passes = 0 /\ received = 0 /\ dropped = 0
    /\ schedPc \in {"select", "balancing"} => passes = 1 + received
    /\ schedPc = "select" => inBalance = 0 /\ bpc = "idle"

\* The second pass, started by a well-formed notification, is in progress.
C12_Witness ==
    /\ received = 1
    /\ passes = 2
    /\ schedPc = "balancing"
    /\ bpc = "write"

(***************************************************************************)
(* C13: receiving a notification of the wrong arity starts no pass and     *)
(* leaves the scheduler waiting in its loop; a well-formed notification    *)
(* received after that still starts a pass.                                *)
(***************************************************************************)
C13_WrongArityIgnored ==
    [][/\ dropped' # dropped =>
            /\ schedPc = "select" /\ schedPc' = "select"
            /\ passes' = passes /\ inBalance' = inBalance /\ bpc' = bpc
       /\ (dropped > 0 /\ received' # received) =>
            /\ passes' = passes + 1
            /\ schedPc' = "balancing" /\ bpc' = "enter"]_vars

\* A pass started by a well-formed notification that was received after a
\* wrong-arity one (no notification is received once MaxPasses passes started).
C13_Witness ==
    /\ dropped = 1
    /\ received = 1
    /\ passes = 2
    /\ bpc = "return"

(***************************************************************************)
(* C11: a pass is idempotent and stateless.  When a second pass runs over  *)
(* the same online CPUs and the same running instances with the same       *)
(* limits.cpu, the value it is about to write to an instance is the value  *)
(* the first pass wrote to it, whatever the order in which either pass     *)
(* visited the instances.                                                  *)
(***************************************************************************)
C11_SecondPassWritesSame ==
    \A c \in Containers :
        (/\ passes = 2
         /\ bpc = "write"
         /\ c \in WriteLeft
         /\ cpuset[c] # <<>>)
        => CpusetValue(pinning[c]) = cpuset[c]

(***************************************************************************)
(* Vocabulary of the properties of the delta engine.                       *)
(***************************************************************************)
\* The validation errors: a nic without a valid nictype or without a required
\* parent, a disk addition without source or path, a nic removal without a name.
ValidationKinds ==
    {"missing_nictype", "bad_nictype", "missing_parent", "no_source_or_path", "noname"}

\* The operations that change links, mounts or cgroup entries.
KernelOpKinds ==
    {"link_add", "link_del", "link_set_addr", "link_up", "attach", "ctn_link_del",
     "mount", "umount", "cgroup_remove", "node_umount", "node_remove", "unixdev"}

OpKinds == {ops[i].op : i \in 1..Len(ops)}

OpsOf(key) == {ops[i].op : i \in {j \in 1..Len(ops) : ops[j].dev = key}}

NamelessNics == {k \in DOMAIN rmList : rmList[k].type = "nic" /\ rmList[k].name = <<>>}

C15_DetachCleanupFailureNotReturned ==
    dpc = "returned" => derr.kind \notin {"forkumount", "rm_node"}

(***************************************************************************)
(* C16: when devicesApplyDeltaLive returns a validation error, the call    *)
(* has changed no link, mount or cgroup entry.                             *)
(***************************************************************************)
C16_ValidationErrorChangesNothing ==
    (dpc = "returned" /\ derr.kind \in ValidationKinds)
    => OpKinds \cap KernelOpKinds = {}

(***************************************************************************)
(* C17: a delta whose removed half has a nic with an empty name fails, the *)
(* error reported for such a device is the one that names it, and the call *)
(* deletes no link.                                                        *)
(***************************************************************************)
C17_NamelessNicRemovalFails ==
    (dpc = "returned" /\ NamelessNics # {})
    => /\ derr # NoError
       /\ derr.dev \in NamelessNics => derr.kind = "noname"
       /\ "ctn_link_del" \notin OpKinds

(***************************************************************************)
(* C18: the first step that fails ends the update.  The call returns that  *)
(* error; no operation is performed after it, and the failing step itself  *)
(* performs operations on its own device only, so that what earlier steps  *)
(* did stays as it is.                                                     *)
(***************************************************************************)
C18_FirstErrorAborts ==
    [][/\ derr' # NoError => dpc' = "returned"
       /\ derr # NoError =>
            UNCHANGED <<derr, dpc, ops, links, bridgeMembers, ctnIfaces, mounts,
                        hwaddrStore, nameStore, rmLeft, addLeft>>
       /\ (derr = NoError /\ derr' # NoError) =>
            /\ Len(ops') >= Len(ops)
            /\ \A i \in 1..Len(ops') :
                  IF i <= Len(ops) THEN ops'[i] = ops[i] ELSE ops'[i].dev = derr'.dev]_vars

\* The call returned an error after another device had been processed, with
\* a device still to process.
C18_Witness ==
    /\ dpc = "returned"
    /\ derr # NoError
    /\ rmLeft \cup addLeft # {}
    /\ \E i \in 1..Len(ops) : ops[i].dev # derr.dev

(***************************************************************************)
(* C19: applying the delta of two identical device sets finds both halves  *)
(* empty, performs no operation and returns success.                       *)
(***************************************************************************)
C19_IdenticalSetsNoOperation ==
    (dpc # "idle" /\ preDevList = postDevList)
    => /\ rmList = EmptyMap
       /\ addList = EmptyMap
       /\ dpc = "returned"
       /\ derr = NoError
       /\ ops = <<>>

\* The call returned for two identical sets of two devices.
C19_Witness ==
    /\ dpc = "returned"
    /\ preDevList = postDevList
    /\ DOMAIN preDevList = DeviceNames

(***************************************************************************)
(* C20: validDeviceConfig(type, key, value) is true exactly for the keys   *)
(* of the type's whitelist (none for type none and for unknown types; the  *)
(* key "type" is in no whitelist).                                         *)
(***************************************************************************)
Whitelist(t) ==
    IF t = "nic" THEN {"parent", "name", "hwaddr", "mtu", "nictype"}
    ELSE IF t = "disk" THEN {"path", "source", "readonly", "optional"}
    ELSE IF t \in {"unix-char", "unix-block"}
    THEN {"path", "major", "minor", "uid", "gid", "mode"}
    ELSE {}

C20_ValidIffWhitelisted ==
    fnPc = "returned" /\ fnArgs.fn = "validDeviceConfig"
    => fnResult[1] = (fnArgs.k # "type" /\ fnArgs.k \in Whitelist(fnArgs.t))

(***************************************************************************)
(* C20, amended: as above, except that the key nictype of a nic is valid   *)
(* only with one of the values physical, bridged, p2p, macvlan.            *)
(***************************************************************************)
C20_ValidIffWhitelistedAndNicType ==
    fnPc = "returned" /\ fnArgs.fn = "validDeviceConfig"
    => fnResult[1] =
         (/\ fnArgs.k # "type"
          /\ fnArgs.k \in Whitelist(fnArgs.t)
          /\ (fnArgs.t = "nic" /\ fnArgs.k = "nictype")
                => fnArgs.v \in {"physical", "bridged", "p2p", "macvlan"})

\* The call validDeviceConfig("nic", "nictype", "bridge") returned false.
C20_Witness ==
    /\ fnPc = "returned"
    /\ fnArgs = [fn |-> "validDeviceConfig", t |-> "nic", k |-> "nictype", v |-> "bridge"]
    /\ fnResult = <<FALSE>>

(***************************************************************************)
(* C21: the type codec is a bijection between the five type names and      *)
(* 0..4: decoding the code of a name gives the name back, encoding the     *)
(* name of a code gives the code back, and every other string or integer   *)
(* is answered with an error.                                              *)
(***************************************************************************)
DeviceTypeNames == {"none", "nic", "disk", "unix-char", "unix-block"}

C21_CodecIsBijection ==
    /\ (fnPc = "returned" /\ fnArgs.fn = "deviceTypeToDbType")
       => IF fnArgs.t \in DeviceTypeNames
          THEN /\ ~fnResult[1].err
               /\ fnResult[1].n \in 0..4
               /\ dbDeviceTypeToString(fnResult[1].n) = [s |-> fnArgs.t, err |-> FALSE]
          ELSE fnResult[1].err
    /\ (fnPc = "returned" /\ fnArgs.fn = "dbDeviceTypeToString")
       => IF fnArgs.n \in 0..4
          THEN /\ ~fnResult[1].err
               /\ fnResult[1].s \in DeviceTypeNames
               /\ deviceTypeToDbType(fnResult[1].s) = [n |-> fnArgs.n, err |-> FALSE]
          ELSE fnResult[1].err

\* deviceTypeToDbType("unix-block") returned 4, which decodes to "unix-block".
C21_Witness ==
    /\ fnPc = "returned"
    /\ fnArgs = [fn |-> "deviceTypeToDbType", t |-> "unix-block"]
    /\ fnResult = <<[n |-> 4, err |-> FALSE]>>
    /\ dbDeviceTypeToString(4).s = "unix-block"

(***************************************************************************)
(* C22: for a unix-char or unix-block device whose major and minor are     *)
(* both given (as decimal numbers) and whose mode is absent or octal,      *)
(* deviceCgroupInfo returns "<c|b> <major>:<minor> <mode-string>": the     *)
(* mode-string is "m", then "r" iff one of the three permission digits of  *)
(* the mode has the read bit, then "w" iff one has the write bit, an       *)
(* absent mode counting as 0660.  unix-char 10:200 mode 0440 gives         *)
(* "c 10:200 mr".  The call fails when exactly one of major and minor is   *)
(* given and when the type is neither unix-char nor unix-block.            *)
(***************************************************************************)
\* The three permission digits (user, group, others) of an octal mode string.
PermDigits(strmode) ==
    LET s == IF strmode = <<>> THEN <<"6", "6", "0">> ELSE strmode
    IN  {DigitVal(s[i]) : i \in {j \in 1..Len(s) : j > Len(s) - 3}}

ExpectedModeString(strmode) ==
    <<"m">> \o (IF PermDigits(strmode) \cap {4, 5, 6, 7} # {} THEN <<"r">> ELSE <<>>)
            \o (IF PermDigits(strmode) \cap {2, 3, 6, 7} # {} THEN <<"w">> ELSE <<>>)

C22_CgroupLine ==
    (fnPc = "returned" /\ fnArgs.fn = "deviceCgroupInfo")
    => LET dev == fnArgs.dev
           res == fnResult[1]
       IN  /\ (/\ dev.type \in {"unix-char", "unix-block"}
               /\ AllDigits(dev.major) /\ AllDigits(dev.minor)
               /\ (dev.mode = <<>> \/ AllOctal(dev.mode)))
              => /\ ~res.err
                 /\ res.s = (IF dev.type = "unix-char" THEN <<"c">> ELSE <<"b">>)
                             \o <<" ">> \o NatToString(DigitsValue(dev.major, 0))
                             \o <<":">> \o NatToString(DigitsValue(dev.minor, 0))
                             \o <<" ">> \o ExpectedModeString(dev.mode)
                 /\ ExpectedModeString(dev.mode)
                      \in {<<"m">>, <<"m", "r">>, <<"m", "w">>, <<"m", "r", "w">>}
           /\ (dev.major = <<>>) # (dev.minor = <<>>) => res.err
           /\ dev.type \notin {"unix-char", "unix-block"} => res.err

\* deviceCgroupInfo of unix-char 10:200 mode 0440 returned "c 10:200 mr".
C22_Witness ==
    /\ fnPc = "returned"
    /\ fnArgs.fn = "deviceCgroupInfo"
    /\ fnArgs.dev = [Device("unix-char") EXCEPT !.path = "/dev/x", !.major = <<"1", "0">>,
                        !.minor = <<"2", "0", "0">>, !.mode = <<"0", "4", "4", "0">>]
    /\ fnResult = <<[err |-> FALSE,
                     s |-> <<"c", " ", "1", "0", ":", "2", "0", "0", " ", "m", "r">>]>>

(***************************************************************************)
(* C23: for a disk whose source is not a block device, deviceToLxc returns *)
(* exactly one mount entry "<source> <dest> none <opts> 0 0".  The dest is *)
(* the path without its leading slash (empty for "/" and for an empty      *)
(* path); the opts are, joined by commas and in this order, bind,          *)
(* create=dir for a directory source and create=file otherwise, ro iff     *)
(* readonly is "1" or "true", optional iff optional is "1" or "true".      *)
(* Source /srv/data (a directory), path mnt, readonly 1 gives              *)
(* "/srv/data mnt none bind,create=dir,ro 0 0".                            *)
(***************************************************************************)
ExpectedDest(path) == IF path # <<>> /\ Head(path) = "/" THEN Tail(path) ELSE path

ExpectedOpts(d, isDir) ==
    Str_bind \o <<",">> \o (IF isDir THEN Str_create_dir ELSE Str_create_file)
      \o (IF d.readonly \in {"1", "true"} THEN <<",">> \o Str_ro ELSE <<>>)
      \o (IF d.optional \in {"1", "true"} THEN <<",">> \o Str_optional ELSE <<>>)

C23_DiskMountEntry ==
    (/\ fnPc = "returned" /\ fnArgs.fn = "deviceToLxc"
     /\ fnArgs.d.type = "disk" /\ ~fnArgs.env.isBlockdev)
    => LET d == fnArgs.d
       IN  /\ ~fnResult[1].err
           /\ fnResult[1].lines =
                <<<<"lxc.mount.entry",
                    d.source \o <<" ">> \o ExpectedDest(d.path) \o <<" ">> \o Str_none
                      \o <<" ">> \o ExpectedOpts(d, fnArgs.env.isDir)
                      \o <<" ", "0", " ", "0">>>>>>
           /\ (d.path \in {<<>>, <<"/">>} => ExpectedDest(d.path) = <<>>)

\* The example of the claim has been translated.
C23_Witness ==
    /\ fnPc = "returned"
    /\ fnArgs.fn = "deviceToLxc"
    /\ fnArgs.d = [ConfigDevice("disk") EXCEPT !.source = Path_srv_data,
                      !.path = Path_mnt_relative, !.readonly = "1"]
    /\ fnArgs.env.isDir
    /\ fnResult = <<[err |-> FALSE,
                     lines |-> <<<<"lxc.mount.entry",
                                   <<"/", "s", "r", "v", "/", "d", "a", "t", "a", " ", "m", "n", "t", " ", "n", "o", "n", "e", " ", "b", "i", "n", "d", ",", "c", "r", "e", "a", "t", "e", "=", "d", "i", "r", ",", "r", "o", " ", "0", " ", "0">>>>>>]>>

(***************************************************************************)
(* C24: for a nic, deviceToLxc fails iff the nictype is empty, is not one  *)
(* of bridged, physical, p2p, macvlan, or is bridged, physical or macvlan  *)
(* with an empty parent.  Otherwise it returns the link type (veth for     *)
(* bridged and p2p, phys for physical, macvlan and the macvlan mode bridge *)
(* for macvlan), a hwaddr, an mtu and a name directive exactly for the     *)
(* attributes that are not empty, and a link directive exactly for         *)
(* bridged, physical and macvlan.  Type none gives no directive and no     *)
(* error; a type that is none of the five device types gives an error.     *)
(***************************************************************************)
Directives(res) == {res.lines[i] : i \in 1..Len(res.lines)}
DirectiveKeys(res) == {res.lines[i][1] : i \in 1..Len(res.lines)}

C24_NicDirectives ==
    (fnPc = "returned" /\ fnArgs.fn = "deviceToLxc")
    => LET d == fnArgs.d
           res == fnResult[1]
           linked == d.nictype \in {"bridged", "physical", "macvlan"}
       IN  /\ d.type = "nic"
              => /\ res.err <=> (\/ d.nictype = ""
                                 \/ d.nictype \notin {"bridged", "physical", "p2p", "macvlan"}
                                 \/ (linked /\ d.parent = ""))
                 /\ ~res.err
                    => /\ d.nictype \in {"bridged", "p2p"}
                          => <<"lxc.network.type", "veth">> \in Directives(res)
                       /\ d.nictype = "physical"
                          => <<"lxc.network.type", "phys">> \in Directives(res)
                       /\ d.nictype = "macvlan"
                          => /\ <<"lxc.network.type", "macvlan">> \in Directives(res)
                             /\ <<"lxc.network.macvlan.mode", "bridge">> \in Directives(res)
                       /\ "lxc.network.macvlan.mode" \in DirectiveKeys(res)
                          <=> d.nictype = "macvlan"
                       /\ "lxc.network.hwaddr" \in DirectiveKeys(res) <=> d.hwaddr # ""
                       /\ d.hwaddr # "" => <<"lxc.network.hwaddr", d.hwaddr>> \in Directives(res)
                       /\ "lxc.network.mtu" \in DirectiveKeys(res) <=> d.mtu # ""
                       /\ d.mtu # "" => <<"lxc.network.mtu", d.mtu>> \in Directives(res)
                       /\ "lxc.network.name" \in DirectiveKeys(res) <=> d.name # ""
                       /\ d.name # "" => <<"lxc.network.name", d.name>> \in Directives(res)
                       /\ "lxc.network.link" \in DirectiveKeys(res) <=> linked
                       /\ linked => <<"lxc.network.link", d.parent>> \in Directives(res)
                       /\ Cardinality(DirectiveKeys(res)) = Len(res.lines)
                       /\ DirectiveKeys(res) \subseteq
                            {"lxc.network.type", "lxc.network.macvlan.mode",
                             "lxc.network.hwaddr", "lxc.network.mtu", "lxc.network.name",
                             "lxc.network.link"}
           /\ d.type = "none" => ~res.err /\ res.lines = <<>>
           /\ d.type \notin DeviceTypeNames => res.err

\* A macvlan nic with every attribute, a nic without a parent and a device of
\* type none have been translated.
C24_Witness ==
    /\ fnPc = "returned"
    /\ fnArgs.fn = "deviceToLxc"
    /\ fnArgs.d = [ConfigDevice("nic") EXCEPT !.nictype = "macvlan", !.parent = "br0",
                      !.name = "eth0", !.hwaddr = ExplicitMac, !.mtu = "1500"]
    /\ fnResult = <<[err |-> FALSE,
                     lines |-> << <<"lxc.network.type", "macvlan">>,
                                  <<"lxc.network.macvlan.mode", "bridge">>,
                                  <<"lxc.network.hwaddr", ExplicitMac>>,
                                  <<"lxc.network.mtu", "1500">>,
                                  <<"lxc.network.link", "br0">>,
                                  <<"lxc.network.name", "eth0">> >>]>>

(***************************************************************************)
(* C25: the monitor publishes a notification for a datagram it reads if    *)
(* and only if the fields of that datagram have SUBSYSTEM=cpu,             *)
(* DRIVER=processor and ACTION online or offline, whatever was read        *)
(* before; the notification has two elements, the basename of the          *)
(* datagram's DEVPATH and its ACTION.                                      *)
(***************************************************************************)
\* The value of a key among the fields of a uevent ("" when it has none).
OwnField(u, key) ==
    LET at == {i \in 1..Len(u.fields) : u.fields[i][1] = key}
    IN  IF at = {} THEN <<>>
        ELSE u.fields[CHOOSE i \in at : \A n \in at : n <= i][2]

OwnFieldsMatch(u) ==
    /\ OwnField(u, Key_SUBSYSTEM) = Str_cpu
    /\ OwnField(u, Key_DRIVER) = Str_processor
    /\ OwnField(u, Key_ACTION) \in {Str_online, Str_offline}

C25_PublishesOwnFields ==
    [][(monitorPc = "read" /\ sock # <<>> /\ sock' = Tail(sock))
       => /\ (monitorPc' = "send") <=> OwnFieldsMatch(UeventOf(Head(sock)))
          /\ monitorPc' = "send"
             => hotplugMsg' = <<Base(OwnField(UeventOf(Head(sock)), Key_DEVPATH)),
                                OwnField(UeventOf(Head(sock)), Key_ACTION)>>]_vars

(***************************************************************************)
(* C26: a failed write of cpuset.cpus does not end the pass.  No instance  *)
(* is written twice, and when the pass returns every instance that was     *)
(* assigned a CPU has had its write attempted once, whether or not the     *)
(* writes of other instances failed.                                       *)
(***************************************************************************)
\* The write of cpuset.cpus was attempted for c and failed (the file of an
\* instance that was never written is empty).
WriteFailed(c) == writes[c] # <<>> /\ cpuset[c] = <<>>

C26_WriteFailureDoesNotAbort ==
    /\ \A c \in Containers : Len(writes[c]) <= 1
    /\ \A c \in Containers : writes[c] # <<>> => pinning[c] # <<>>
    /\ bpc = "return" => \A c \in Containers : pinning[c] # <<>> => Len(writes[c]) = 1

\* A pass has returned after the write of one instance failed and the write of
\* another one succeeded.
C26_Witness ==
    /\ bpc = "return"
    /\ \E c1, c2 \in Containers :
           /\ WriteFailed(c1)
           /\ writes[c2] # <<>>
           /\ cpuset[c2] = writes[c2][1]

(***************************************************************************)
(* C27 as stated: when a nic is added and an address is persisted for the  *)
(* device, that address is set on the link and nothing is written to the   *)
(* store; when none is persisted, the address set on the link is generated *)
(* and, once the addition has succeeded, it is the address persisted for   *)
(* the device; a failure to persist ends the addition before a link is     *)
(* created.                                                                *)
(***************************************************************************)
\* The address persisted for a device when the call started.
PersistedBefore(key) ==
    IF /\ key \in DOMAIN preDevList
       /\ preDevList[key].type = "nic"
       /\ NicCheck(preDevList[key]) = "nil"
       /\ preDevList[key].hwaddr = ""
    THEN StoredMac ELSE ""

\* The addresses given to an operation on a device during the call.
ArgsOf(kind, key) ==
    {ops[i].arg : i \in {j \in 1..Len(ops) : ops[j].dev = key /\ ops[j].op = kind}}

AddedNics == {k \in DOMAIN addList : addList[k].type = "nic"}

\* The addition of the device has run to its end.
AdditionSucceeded(key) == "db_name" \in OpsOf(key)

ReusesPersisted(key) ==
    PersistedBefore(key) # ""
    => /\ ArgsOf("link_set_addr", key) \subseteq {PersistedBefore(key)}
       /\ ArgsOf("db_hwaddr", key) = {}
       /\ hwaddrStore[key] = PersistedBefore(key)

PersistFailureCreatesNoLink(key) ==
    (derr.kind = "db_hwaddr" /\ derr.dev = key)
    => /\ "link_add" \notin OpsOf(key)
       /\ TempNic(key, "a") \notin links /\ TempNic(key, "b") \notin links

C27_GeneratedMacPersisted ==
    \A key \in AddedNics :
        /\ ReusesPersisted(key)
        /\ (PersistedBefore(key) = "" /\ AdditionSucceeded(key))
           => /\ ArgsOf("link_set_addr", key) # {}
              /\ ArgsOf("link_set_addr", key) = {hwaddrStore[key]}
        /\ PersistFailureCreatesNoLink(key)

(***************************************************************************)
(* C27, amended: as above, except that an address that is the hwaddr       *)
(* attribute of the device itself (an attribute that is a full address,    *)
(* not a template) is set on the link and is not persisted.                *)
(***************************************************************************)
C27_GeneratedMacPersistedUnlessConfigured ==
    \A key \in AddedNics :
        /\ ReusesPersisted(key)
        /\ (PersistedBefore(key) = "" /\ AdditionSucceeded(key))
           => /\ ArgsOf("link_set_addr", key) # {}
              /\ \A a \in ArgsOf("link_set_addr", key) :
                    IF a = addList[key].hwaddr
                    THEN hwaddrStore[key] = "" /\ ArgsOf("db_hwaddr", key) = {}
                    ELSE hwaddrStore[key] = a /\ ArgsOf("db_hwaddr", key) = {a}
        /\ PersistFailureCreatesNoLink(key)

\* A nic without a persisted address has been added with a generated address,
\* which is now persisted.
C27_Witness ==
    /\ dpc = "returned"
    /\ derr = NoError
    /\ \E key \in AddedNics :
           /\ PersistedBefore(key) = ""
           /\ AdditionSucceeded(key)
           /\ ArgsOf("link_set_addr", key) = {GeneratedMac}
           /\ hwaddrStore[key] = GeneratedMac

(***************************************************************************)
(* C28: a balancer pass and a live device delta that run concurrently on   *)
(* the same instance never write the same cgroup control file: the         *)
(* balancer writes cpuset.cpus only, the delta engine writes devices.*     *)
(* entries only, in every interleaving.                                    *)
(***************************************************************************)
\* The control files of an instance the pass has written (line 284).
BalancerFiles(ctn) == IF writes[ctn] # <<>> THEN {Key_cpuset_cpus} ELSE {}

\* The control files of its instance the delta engine has written.
DeltaFiles ==
    {ops[i].arg : i \in {j \in 1..Len(ops) : ops[j].op \in {"cgroup_remove", "unixdev"}}}

C28_DifferentCgroupFiles ==
    /\ BalancerFiles(DeltaInstance) \cap DeltaFiles = {}
    /\ \A ctn \in Containers : BalancerFiles(ctn) \subseteq {Key_cpuset_cpus}
    /\ DeltaFiles \subseteq {Key_devices_remove, Key_devices_allow}

\* The pass has written the pinning of the instance and the delta engine
\* has removed a device entry of the instance; neither has ended.
C28_Witness ==
    /\ bpc = "write"
    /\ dpc \in {"rm", "add"}
    /\ BalancerFiles(DeltaInstance) = {Key_cpuset_cpus}
    /\ Key_devices_remove \in DeltaFiles

(***************************************************************************)
(* C29: the delta engine deletes only host-side links that the same call   *)
(* created: for every nictype, physical included, a failure to set the     *)
(* address or to bring the link up never deletes a host interface that     *)
(* existed before the call.                                                *)
(***************************************************************************)
\* The host interfaces that exist before the call (see InstalledDevices).
HostLinksBefore == {Name_br0, Name_eth1}

\* The interface has been moved into the instance as a physical nic.
MovedIntoInstance(l) ==
    \E key \in DOMAIN addList :
        /\ addList[key].type = "nic"
        /\ addList[key].nictype = "physical"
        /\ addList[key].parent = l
        /\ "attach" \in OpsOf(key)

C29_DeletesOnlyCreatedLinks ==
    /\ \A l \in HostLinksBefore : l \in links \/ MovedIntoInstance(l)
    /\ \A i \in 1..Len(ops) :
           ops[i].op = "link_del"
           => \E j \in 1..(i - 1) : ops[j].op = "link_add" /\ ops[j].dev = ops[i].dev

(***************************************************************************)
(* C30: while the scheduler loop is running and under fair scheduling,     *)
(* every well-formed notification of either producer (a hotplug            *)
(* notification the monitor publishes, an explicit request sent on         *)
(* deviceSchedRebalance) is eventually received and followed by a complete *)
(* balancer pass that started after the notification was produced; a       *)
(* notification produced while a pass is in progress waits in its producer *)
(* or in the slot until the pass ends.                                     *)
(***************************************************************************)
\* A well-formed notification has been produced and not received yet.
NotificationPending ==
    \/ \E s \in Senders : Len(sender[s]) = 3
    \/ \E i \in 1..Len(deviceSchedRebalance) : Len(deviceSchedRebalance[i]) = 3
    \/ monitorPc = "send" /\ Len(hotplugMsg) = 2

\* The loop is back at its select after a pass that started later than the
\* n-th call, and nothing is left to receive.
ServedAfter(n) ==
    /\ ~NotificationPending
    /\ passes > n
    /\ schedPc = "select"
    /\ bpc = "idle"

C30_NotificationsServed ==
    \A n \in 0..(MaxPasses - 1) :
        (NotificationPending /\ passes = n /\ schedPc # "returned") ~> ServedAfter(n)

\* What remains of C30 when the pass can abort: a pending notification is
\* served unless a pass panics (see C4_NoAbnormalAbort).
C30_ServedUnlessPassPanics ==
    \A n \in 0..(MaxPasses - 1) :
        (NotificationPending /\ passes = n /\ schedPc # "returned")
            ~> (ServedAfter(n) \/ bpc = "panic")

(***************************************************************************)
(* C31: in devicesApplyDeltaLive every removal step precedes every         *)
(* addition step: no device is added before all removed devices have been  *)
(* processed successfully, a device in both halves has its old form        *)
(* removed before its new form is added, and a failing removal means that  *)
(* no addition is attempted.                                               *)
(***************************************************************************)
\* The operations of the removal steps and the errors they return.
RemovalOpKinds == {"ctn_link_del", "umount", "cgroup_remove", "node_umount", "node_remove"}
RemovalErrorKinds == {"noname", "detach_nic", "detach_mount", "cginfo", "forkumount", "rm_node"}

AdditionStarted == addLeft # DOMAIN addList \/ dpc = "add"

C31_RemovalsBeforeAdditions ==
    /\ AdditionStarted => rmLeft = {} /\ derr.kind \notin RemovalErrorKinds
    /\ \A i \in 1..Len(ops), j \in 1..Len(ops) :
           (ops[i].op \in RemovalOpKinds /\ ops[j].op \notin RemovalOpKinds) => i < j
    /\ derr.kind \in RemovalErrorKinds
       => /\ addLeft = DOMAIN addList
          /\ \A i \in 1..Len(ops) : ops[i].op \in RemovalOpKinds

\* A nic whose attributes changed is in both halves: its old interface was
\* deleted inside the instance, then its new form was set up and attached.
C31_Witness ==
    /\ dpc = "returned"
    /\ derr = NoError
    /\ \E key \in DOMAIN rmList \cap DOMAIN addList :
           \E i \in 1..Len(ops), j \in 1..Len(ops) :
               /\ i < j
               /\ ops[i] = Op("ctn_link_del", key)
               /\ ops[j] = Op("attach", key)


\* The pass is past lines 151-176 (a pass that panicked included).
PastClassification == bpc \in {"fixed", "balance", "write", "return", "panic"} /\ Len(cpus) >= 1

RECURSIVE SumPins(_)
SumPins(S) ==
    IF S = {} THEN 0
    ELSE LET c == CHOOSE x \in S : TRUE
         IN  Len(pinning[c]) + SumPins(S \ {c})

\* The configuration with container c's limits.cpu replaced by cf.
ConfWith(c, cf) == [conf EXCEPT ![c] = cf]

(***************************************************************************)
(* C32: a balancing pass never writes cpuset.cpus for an instance that is  *)
(* not running; the limits.cpu of such an instance adds nothing to any     *)
(* usage counter (the counters sum to the pins of the running instances)   *)
(* and changes nothing in what is classified for the running ones: any     *)
(* other limits.cpu value of the stopped instance gives the same fixed and *)
(* load-balanced sets.                                                     *)
(***************************************************************************)
C32_StoppedInstancesIgnored ==
    PastClassification =>
        /\ SumCounts(usage) = SumPins({c \in Containers : running[c]})
        /\ \A c \in Containers : ~running[c] =>
            /\ writes[c] = <<>>
            /\ pinning[c] = <<>>
            /\ cpuset[c] = <<>>
            /\ c \notin DOMAIN balancedContainers
            /\ \A id \in DOMAIN fixedContainers : c \notin Elems(fixedContainers[id])
            /\ \A cf \in ConfigValues :
                /\ BuildFixedContainers(ConfWith(c, cf), running, cpus) = fixedContainers
                /\ BuildBalancedContainers(ConfWith(c, cf), running, cpus) = balancedContainers

\* A pass ended that wrote a running instance's file while a stopped instance
\* carries a pinning expression that names an online CPU.
C32_Witness ==
    /\ PassDone
    /\ \E c, d \in Containers :
        /\ ~running[c] /\ conf[c].ok /\ Referenced(conf[c].val) \cap OnlineIds # {}
        /\ running[d] /\ writes[d] # <<>>


\* The running instances whose limits.cpu is set and parses as an integer.
IntegerLimited == {c \in Containers : running[c] /\ conf[c].ok /\ conf[c].val # <<>>
                                      /\ IsBalanced(conf[c], cpus)}

(***************************************************************************)
(* C33 as stated: a running instance whose limits.cpu parses as an integer *)
(* <= 0 is assigned no CPU and receives no cpuset.cpus write in the pass.  *)
(***************************************************************************)
C33_NonPositiveGetsNothing ==
    PastClassification =>
        \A c \in IntegerLimited : Requested(c) <= 0 =>
            pinning[c] = <<>> /\ writes[c] = <<>>

(***************************************************************************)
(* C33 as amended: a running instance whose limits.cpu is the integer 0 is *)
(* assigned no CPU and receives no write; one whose limits.cpu is a        *)
(* negative integer is assigned every online CPU once its turn in the      *)
(* allocation loop has come, and a pass that runs to its end writes all of *)
(* them to its cpuset.cpus.                                                *)
(***************************************************************************)
C33_ZeroGetsNothingNegativeGetsAll ==
    PastClassification =>
        \A c \in IntegerLimited :
            /\ Requested(c) = 0 => pinning[c] = <<>> /\ writes[c] = <<>>
            /\ Requested(c) < 0 =>
                /\ c \in DOMAIN balancedContainers
                /\ c \in allocated =>
                    Len(pinning[c]) = Len(cpus) /\ IdsOf(pinning[c]) = OnlineIds
                /\ PassDone =>
                    /\ c \in allocated
                    /\ Len(writes[c]) = 1
                    /\ WrittenIds(writes[c][1]) = OnlineIds

\* A pass ended on a host with two or more online CPUs: an instance limited
\* to 0 was left without a write, one limited to -1 was written all of them.
C33_Witness ==
    /\ PassDone /\ Len(cpus) >= 2
    /\ \E c, d \in IntegerLimited :
        /\ Requested(c) = 0 /\ writes[c] = <<>>
        /\ Requested(d) < 0 /\ WrittenIds(writes[d][1]) = OnlineIds


RECURSIVE SumDistinctPins(_)
SumDistinctPins(S) ==
    IF S = {} THEN 0
    ELSE LET c == CHOOSE x \in S : TRUE
         IN  Cardinality(Elems(pinning[c])) + SumDistinctPins(S \ {c})

\* No id occurs twice in a written cpuset.cpus value.
NoRepeatedId(value) ==
    Cardinality(Elems(Split(value, ","))) = Len(Split(value, ","))

(***************************************************************************)
(* C34: the cpuset.cpus value written for an instance never contains the   *)
(* same CPU id twice, and each instance adds 1, not more, to the usage     *)
(* counter of a CPU it is assigned, however often its pinning expression   *)
(* mentions that CPU: the counters sum to the number of distinct           *)
(* (instance, CPU) assignments.                                            *)
(***************************************************************************)
C34_NoCpuTwice ==
    PastClassification =>
        /\ \A c \in Containers : \A k \in 1..Len(writes[c]) : NoRepeatedId(writes[c][k])
        /\ SumCounts(usage) = SumDistinctPins(Containers)


\* The pass has built its pinning map and left container c out of it.
EndsUnassigned(c) == running[c] /\ bpc \in {"write", "return"} /\ pinning[c] = <<>>

(***************************************************************************)
(* C35: a running instance that ends a pass with no assigned CPU receives  *)
(* no cpuset.cpus write in that pass, and its cpuset.cpus keeps the value  *)
(* of the earlier pass: the file of an instance changes only in a write of *)
(* a pass that assigned it a CPU, and then to that pass's value.           *)
(***************************************************************************)
C35_UnassignedKeepsEarlierValue ==
    /\ [](\A c \in Containers : EndsUnassigned(c) => writes[c] = <<>>)
    /\ [][\A c \in Containers :
            /\ EndsUnassigned(c) => cpuset'[c] = cpuset[c]
            /\ cpuset'[c] # cpuset[c] =>
                   bpc = "write" /\ pinning[c] # <<>> /\ cpuset'[c] = CpusetValue(pinning[c])]_vars

\* A second pass ended without a CPU for a pinned instance whose file still
\* holds the first pass's value, which names a CPU that is offline by now.
C35_Witness ==
    /\ passes = 2 /\ bpc = "return"
    /\ \E c \in Containers :
        /\ EndsUnassigned(c)
        /\ conf[c].ok
        /\ cpuset[c] # <<>>
        /\ ~(WrittenIds(cpuset[c]) \subseteq OnlineIds)


(***************************************************************************)
(* C36: after the successful live addition of a nic with nictype bridged,  *)
(* the host-side end of the veth pair created for it is attached to the    *)
(* parent bridge; the host-side end of a p2p nic is attached to no bridge. *)
(***************************************************************************)
C36_BridgedAttachedToParent ==
    \A key \in AddedNics :
        AdditionSucceeded(key) =>
            /\ addList[key].nictype = "bridged" =>
                   TempNic(key, "a") \in links /\ TempNic(key, "a") \in bridgeMembers
            /\ addList[key].nictype = "p2p" => TempNic(key, "a") \notin bridgeMembers


\* The call returned an error raised by the addition of nic key.
AdditionFailed(key) ==
    /\ dpc = "returned"
    /\ derr.dev = key
    /\ derr.kind \notin RemovalErrorKinds \cup {NoError.kind}

(***************************************************************************)
(* C37: whenever devicesApplyDeltaLive returns an error for the addition   *)
(* of a nic, that nic's link has not been moved into the instance: an      *)
(* addition that moved it also persisted its in-instance name.             *)
(***************************************************************************)
C37_FailedAdditionLeavesNoInterface ==
    \A key \in AddedNics :
        /\ AdditionFailed(key) => "attach" \notin OpsOf(key)
        /\ (dpc = "returned" /\ "attach" \in OpsOf(key)) =>
               "db_name" \in OpsOf(key) /\ nameStore[key] # <<>>


\* A call of ConfigKeyChecker has returned: its key, instance type and result.
CheckerReturned == fnPc = "returned" /\ fnArgs.fn = "ConfigKeyChecker"
CheckedKey == fnArgs.key
CheckedType == fnArgs.instanceType
UnknownKey == fnResult[1].err

OnlyInVMTable ==
    CheckedKey \in InstanceConfigKeysVM
        \ (InstanceConfigKeysAny \cup InstanceConfigKeysContainer)
OnlyInContainerTable ==
    CheckedKey \in InstanceConfigKeysContainer
        \ (InstanceConfigKeysAny \cup InstanceConfigKeysVM)

(***************************************************************************)
(* C38: ConfigKeyChecker scopes keys by instance type: a key defined only  *)
(* in the VM table is an unknown key for a container and a key defined     *)
(* only in the container table is unknown for a VM (each is known for its  *)
(* own type and for Any); keys of the common table and keys with prefix    *)
(* user. or environment. are accepted for every type; linux.sysctl.* keys  *)
(* are accepted for containers and Any but not for VMs.                    *)
(***************************************************************************)
C38_KeysScopedByInstanceType ==
    CheckerReturned =>
        /\ OnlyInVMTable => (UnknownKey <=> CheckedType = InstanceTypeContainer)
        /\ OnlyInContainerTable => (UnknownKey <=> CheckedType = InstanceTypeVM)
        /\ CheckedKey \in InstanceConfigKeysAny => ~UnknownKey
        /\ HasPrefix(CheckedKey, <<"user">>) => ~UnknownKey
        /\ HasPrefix(CheckedKey, <<"environment">>) => ~UnknownKey
        /\ HasPrefix(CheckedKey, <<"linux", "sysctl">>) =>
               (UnknownKey <=> CheckedType = InstanceTypeVM)

\* A VM-only key was refused for a container.
C38_Witness ==
    /\ CheckerReturned
    /\ OnlyInVMTable
    /\ CheckedType = InstanceTypeContainer
    /\ UnknownKey


\* A call of devGetOptions has returned an option string.
OptionsReturned ==
    fnPc = "returned" /\ fnArgs.fn = "devGetOptions" /\ ~fnResult[1].err

\* The digits after "mode=" in the last option of the returned string.
EmittedMode ==
    LET opts == Split(fnResult[1].s, ",")
        last == opts[Len(opts)]
    IN  SubSeq(last, Len(Str_mode_eq) + 1, Len(last))

(***************************************************************************)
(* C39: devGetOptions renders the mode consistently: an explicit mode      *)
(* "0660" yields the option string of a device without mode (which ends    *)
(* with mode=0660), and an explicit octal mode is emitted as an octal      *)
(* numeral of its value, not as the decimal value of the parsed number.    *)
(***************************************************************************)
C39_ModeRenderedInOctal ==
    OptionsReturned =>
        /\ fnArgs.d.mode = <<>> => EmittedMode = Str_0660
        /\ fnArgs.d.mode = Str_0660 =>
               fnResult[1].s = devGetOptions([fnArgs.d EXCEPT !.mode = <<>>]).s
        /\ AllOctal(fnArgs.d.mode) =>
               AllOctal(EmittedMode) /\ OctalValue(EmittedMode, 0) = devModeOct(fnArgs.d.mode).n

====
